---- MODULE Spec2Model ----
(***************************************************************************)
(* A model of the EigenScript toolchain: the recursive-descent parser      *)
(* (parser/ast_builder.py) and the LLVM lowering backend                   *)
(* (compiler/codegen/llvm_backend.py), together with the semantics of the  *)
(* IR the backend emits.                                                   *)
(***************************************************************************)
EXTENDS Integers, Sequences, FiniteSets, TLC

VARIABLES
    module,            \* LLVMCodeGenerator.module: the functions defined so far, with their blocks
    global_vars,       \* LLVMCodeGenerator.global_vars
    local_vars,        \* LLVMCodeGenerator.local_vars (insertion-ordered dict)
    functions,         \* LLVMCodeGenerator.functions: the function table
    current_function,  \* LLVMCodeGenerator.current_function
    builder,           \* LLVMCodeGenerator.builder: the insertion cursor
    next_id,           \* identity of the next ir.Value the builder creates
    phase,             \* where compile() stands: "new", "lowering", "done", "failed"
    error,             \* the exception compile() raised, if any
    node,              \* the statement _generate was last called on by compile()
    lowered,           \* the number of statements compile() has handed to _generate
    tokens,            \* Parser.tokens
    position,          \* Parser.position
    parsed,            \* what Parser.parse() did: not run, returned a Program, raised, or never returned
    environments,      \* the Environment objects created so far
    interpreter,       \* the Interpreter's fields and where evaluate() stands
    evaluated,         \* what the last call on an environment or the interpreter returned or raised
    tokenizer,         \* the Tokenizer's fields
    lexed              \* what Tokenizer.tokenize() returned, and how often it was called

vars == <<module, global_vars, local_vars, functions, current_function, builder,
          next_id, phase, error, node, lowered, tokens, position, parsed,
          environments, interpreter, evaluated, tokenizer, lexed>>

codegenVars == <<module, global_vars, local_vars, functions, current_function, builder,
                 next_id, phase, error, node, lowered>>

parserVars == <<tokens, position, parsed>>

evaluatorVars == <<environments, interpreter, evaluated>>

lexerVars == <<tokenizer, lexed>>

(***************************************************************************)
(* Bounds of the model.                                                    *)
(***************************************************************************)
MaxStmts == 3

(***************************************************************************)
(* AST nodes (parser/ast_builder.py, and the node classes the backend      *)
(* imports).  Literal values are integers.                                 *)
(***************************************************************************)
NoNode == [type |-> "NoneType"]

Literal(value, literal_type) == [type |-> "Literal", value |-> value, literal_type |-> literal_type]

Identifier(name) == [type |-> "Identifier", name |-> name]

Relation(left, right) == [type |-> "Relation", left |-> left, right |-> right]

BinaryOp(left, operator, right) == [type |-> "BinaryOp", left |-> left, operator |-> operator, right |-> right]

UnaryOp(operator, operand) == [type |-> "UnaryOp", operator |-> operator, operand |-> operand]

Assignment(identifier, expression) == [type |-> "Assignment", identifier |-> identifier, expression |-> expression]

Conditional(condition, if_block, else_block) == [type |-> "Conditional", condition |-> condition, if_block |-> if_block, else_block |-> else_block]

Loop(condition, body) == [type |-> "Loop", condition |-> condition, body |-> body]

FunctionDef(name, parameters, body) ==
    [type |-> "FunctionDef", name |-> name, parameters |-> parameters, body |-> body]

Return(expression) == [type |-> "Return", expression |-> expression]

Break == [type |-> "Break"]

Interrogative(interrogative, expression) == [type |-> "Interrogative", interrogative |-> interrogative, expression |-> expression]

ListLiteral(elements) == [type |-> "ListLiteral", elements |-> elements]

Index(list_expr, index_expr) == [type |-> "Index", list_expr |-> list_expr, index_expr |-> index_expr]

(***************************************************************************)
(* IR values, types and the values _generate returns.                      *)
(***************************************************************************)
\* An ir.Value: a constant (id is its value) or the result of an instruction
\* or a function argument (id is its identity).
IRValue(k, ty, id) == [k |-> k, ty |-> ty, id |-> id]

Constant(ty, v) == IRValue("const", ty, v)

NoValue == IRValue("none", "void", 0)

\* What _generate returns: a raw ir.Value, a GeneratedValue or None.
RawValue(v) == [cls |-> "ir.Value", kind |-> "", value |-> v]

GeneratedValue(v, kind) == [cls |-> "GeneratedValue", kind |-> kind, value |-> v]

PyNone == [cls |-> "NoneType", kind |-> "", value |-> NoValue]

SCALAR == "scalar"

EIGEN_PTR == "eigen_ptr"

LIST_PTR == "list_ptr"

double_type == "double"

eigen_value_ptr == "EigenValue*"

eigen_list_ptr == "EigenList*"

\* The type a pointer type points to.
Pointee(ty) ==
    CASE ty = "EigenValue**" -> eigen_value_ptr
      [] ty = "EigenList**" -> eigen_list_ptr
      [] OTHER -> "struct"

AsPointer(ty) ==
    CASE ty = eigen_value_ptr -> "EigenValue**"
      [] ty = eigen_list_ptr -> "EigenList**"
      [] OTHER -> "ptr"

\* The test both _generate_identifier and _generate_assignment make: a pointer
\* to a literal struct of three elements whose first is a pointer.
IsListType(ty) == ty = eigen_list_ptr

\* The runtime functions _declare_runtime_functions declares: parameter types
\* and return type.  printf is variadic after its format string.
RuntimeFunctions ==
    [printf |-> [args |-> <<"i8*">>, ret |-> "i32"],
     eigen_create |-> [args |-> <<double_type>>, ret |-> eigen_value_ptr],
     eigen_update |-> [args |-> <<eigen_value_ptr, double_type>>, ret |-> "void"],
     eigen_get_value |-> [args |-> <<eigen_value_ptr>>, ret |-> double_type],
     eigen_get_gradient |-> [args |-> <<eigen_value_ptr>>, ret |-> double_type],
     eigen_get_stability |-> [args |-> <<eigen_value_ptr>>, ret |-> double_type],
     eigen_get_iteration |-> [args |-> <<eigen_value_ptr>>, ret |-> "i64"],
     eigen_check_converged |-> [args |-> <<eigen_value_ptr>>, ret |-> "i1"],
     eigen_check_diverging |-> [args |-> <<eigen_value_ptr>>, ret |-> "i1"],
     eigen_check_oscillating |-> [args |-> <<eigen_value_ptr>>, ret |-> "i1"],
     eigen_check_stable |-> [args |-> <<eigen_value_ptr>>, ret |-> "i1"],
     eigen_check_improving |-> [args |-> <<eigen_value_ptr>>, ret |-> "i1"],
     eigen_list_create |-> [args |-> <<"i64">>, ret |-> eigen_list_ptr],
     eigen_list_get |-> [args |-> <<eigen_list_ptr, "i64">>, ret |-> double_type],
     eigen_list_set |-> [args |-> <<eigen_list_ptr, "i64", double_type>>, ret |-> "void"],
     eigen_list_length |-> [args |-> <<eigen_list_ptr>>, ret |-> "i64"]]

\* The signature every user function gets in _generate_function_def.
UserFunctionType == [args |-> <<eigen_value_ptr>>, ret |-> double_type]

Predicates == {"converged", "diverging", "oscillating", "stable", "improving"}

(***************************************************************************)
(* The code generator's state as one record, threaded through _generate.   *)
(* err is the exception in flight; ret is the value the last call returned;*)
(* r is the ir.Value the last builder call returned.                       *)
(***************************************************************************)
NoError == [type |-> "none", arg |-> ""]

Exception(type, arg) == [type |-> type, arg |-> arg]

Ok(s) == s.err.type = "none"

Raise(s, type, arg) == IF Ok(s) THEN [s EXCEPT !.err = Exception(type, arg)] ELSE s

Returns(s, v) == IF Ok(s) THEN [s EXCEPT !.ret = v] ELSE s

\* A function of the module: its name and its basic blocks in creation order.
Function(name) == [name |-> name, blocks |-> <<>>]

BasicBlock(name) == [name |-> name, instrs |-> <<>>]

Instruction(op, callee, args, res, targets) ==
    [op |-> op, callee |-> callee, args |-> args, res |-> res, targets |-> targets]

Terminators == {"ret", "br", "cbranch"}

IsTerminated(block) == \E i \in 1..Len(block.instrs) : block.instrs[i].op \in Terminators

\* The index in s.module of the function called name, 0 when there is none.
FunctionIndex(mod, name) ==
    IF \E i \in 1..Len(mod) : mod[i].name = name
    THEN CHOOSE i \in 1..Len(mod) : mod[i].name = name
    ELSE 0

\* Names the module already holds: the declared runtime functions and the
\* functions defined so far.
ModuleNames(mod) == DOMAIN RuntimeFunctions \cup {"malloc"} \cup {mod[i].name : i \in 1..Len(mod)}

(***************************************************************************)
(* Symbol tables: Python dicts, which keep insertion order.                *)
(***************************************************************************)
Has(table, name) == \E i \in 1..Len(table) : table[i].name = name

Get(table, name) == table[CHOOSE i \in 1..Len(table) : table[i].name = name].ptr

\* table[name] = ptr: a new key goes last, an existing key keeps its place.
\* A symbol table that drops the binding it is given.
SetDropped(table, name, ptr) == table

Set(table, name, ptr) ==
    IF Has(table, name)
    THEN [i \in 1..Len(table) |-> IF table[i].name = name THEN [name |-> name, ptr |-> ptr] ELSE table[i]]
    ELSE Append(table, [name |-> name, ptr |-> ptr])

Keys(table) == {table[i].name : i \in 1..Len(table)}

\* self.local_vars.get(name) or self.global_vars.get(name)
Lookup(s, name) == IF Has(s.local_vars, name) THEN Get(s.local_vars, name) ELSE Get(s.global_vars, name)

IsBound(s, name) == Has(s.local_vars, name) \/ Has(s.global_vars, name)

(***************************************************************************)
(* The llvmlite IRBuilder, as the backend uses it.  Every operation        *)
(* appends to the block under the cursor; the type checks are llvmlite's.  *)
(***************************************************************************)
\* An operand that is an ir.Value has a type; a GeneratedValue or None handed
\* to the builder has none.
HasType(v) == v.k \in {"const", "inst", "arg"}

\* What reaches the builder when the backend passes on what _generate returned.
Operand(pv) == IF pv.cls = "ir.Value" THEN pv.value ELSE IRValue(pv.cls, "", pv.value.id)

Insert(s, ins) ==
    [s EXCEPT !.module[s.builder.fn].blocks[s.builder.block].instrs = Append(@, ins)]

Build(s, op, callee, args, ty) ==
    LET res == IRValue("inst", ty, s.next_id)
    IN [Insert(s, Instruction(op, callee, args, res, <<>>)) EXCEPT !.next_id = @ + 1, !.r = res]

CurrentBlock(s) == s.module[s.builder.fn].blocks[s.builder.block]

\* IRBuilder._set_terminator asserts that the block has no terminator yet.
Terminate(s, op, args, targets) ==
    IF ~Ok(s) THEN s
    ELSE IF IsTerminated(CurrentBlock(s)) THEN Raise(s, "AssertionError", "block is terminated")
    ELSE LET res == IRValue("inst", "void", s.next_id)
         IN [Insert(s, Instruction(op, "", args, res, targets)) EXCEPT !.next_id = @ + 1, !.r = res]

alloca(s, ty, name) == IF ~Ok(s) THEN s ELSE Build(s, "alloca", name, <<>>, AsPointer(ty))

load(s, ptr) == IF ~Ok(s) THEN s ELSE Build(s, "load", "", <<ptr>>, Pointee(ptr.ty))

store(s, value, ptr) ==
    IF ~Ok(s) THEN s
    ELSE IF Pointee(ptr.ty) # value.ty THEN Raise(s, "TypeError", "cannot store: mismatching types")
    ELSE Build(s, "store", "", <<value, ptr>>, "void")

\* The signature of a callee: a declared runtime function or a user function.
Signature(callee) == IF callee \in DOMAIN RuntimeFunctions THEN RuntimeFunctions[callee] ELSE UserFunctionType

\* CallInstr checks each fixed parameter's type against the argument's.
call(s, callee, args) ==
    LET sig == Signature(callee)
    IN IF ~Ok(s) THEN s
       ELSE IF \E i \in 1..Len(sig.args) : ~HasType(args[i]) THEN Raise(s, "AttributeError", "type")
       ELSE IF \E i \in 1..Len(sig.args) : args[i].ty # sig.args[i] THEN Raise(s, "TypeError", "Type of arg mismatch")
       ELSE Build(s, "call", callee, args, sig.ret)

\* fadd, fsub, fmul, fdiv: the operands must have one type, which is the result's.
binop(s, opname, lhs, rhs) ==
    IF ~Ok(s) THEN s
    ELSE IF ~HasType(lhs) \/ ~HasType(rhs) THEN Raise(s, "AttributeError", "type")
    ELSE IF lhs.ty # rhs.ty THEN Raise(s, "ValueError", "Operands must be the same type")
    ELSE Build(s, opname, "", <<lhs, rhs>>, lhs.ty)

fcmp_ordered(s, cmpop, lhs, rhs) ==
    IF ~Ok(s) THEN s
    ELSE IF ~HasType(lhs) THEN Raise(s, "AttributeError", "type")
    ELSE Build(s, "fcmp", cmpop, <<lhs, rhs>>, "i1")

not_(s, value) ==
    IF ~Ok(s) THEN s
    ELSE IF ~HasType(value) THEN Raise(s, "AttributeError", "type")
    ELSE Build(s, "xor", "", <<value, Constant(value.ty, -1)>>, value.ty)

fneg(s, value) ==
    IF ~Ok(s) THEN s
    ELSE IF ~HasType(value) THEN Raise(s, "AttributeError", "type")
    ELSE Build(s, "fneg", "", <<value>>, value.ty)

cast(s, op, value, ty) == IF ~Ok(s) THEN s ELSE Build(s, op, "", <<value>>, ty)

ret(s, value) == Terminate(s, "ret", <<value>>, <<>>)

branch(s, target) == Terminate(s, "br", <<>>, <<target>>)

cbranch(s, cond, truebr, falsebr) == Terminate(s, "cbranch", <<cond>>, <<truebr, falsebr>>)

\* Function.append_basic_block on the current function; r.id is the new block's index.
append_basic_block(s, name) ==
    IF ~Ok(s) THEN s
    ELSE LET blocks == s.module[s.current_function].blocks
         IN [s EXCEPT !.module[s.current_function].blocks = Append(@, BasicBlock(name)),
                      !.r = IRValue("block", "label", Len(blocks) + 1)]

position_at_end(s, block) ==
    IF ~Ok(s) THEN s ELSE [s EXCEPT !.builder = [fn |-> s.current_function, block |-> block]]

(***************************************************************************)
(* LLVMCodeGenerator: the coercions and _generate, one operator per        *)
(* method.  Each takes the state and returns the state after the call.     *)
(***************************************************************************)
ensure_scalar(s, gen_val) ==
    IF ~Ok(s) THEN s
    ELSE IF gen_val.cls = "ir.Value" THEN [s EXCEPT !.r = gen_val.value]
    ELSE IF gen_val.cls = "NoneType" THEN Raise(s, "AttributeError", "kind")
    ELSE IF gen_val.kind = SCALAR THEN [s EXCEPT !.r = gen_val.value]
    ELSE IF gen_val.kind = EIGEN_PTR THEN call(s, "eigen_get_value", <<gen_val.value>>)
    ELSE IF gen_val.kind = LIST_PTR THEN Raise(s, "TypeError", "Cannot convert list to scalar")
    ELSE Raise(s, "ValueError", "Unknown ValueKind")

\* ensure_eigen_ptr, were it to wrap the scalar a reference holds in a new
\* tracked value instead of passing the reference through.
ensure_eigen_ptr_copying(s, gen_val) ==
    IF ~Ok(s) THEN s
    ELSE IF gen_val.cls = "ir.Value" THEN call(s, "eigen_create", <<gen_val.value>>)
    ELSE IF gen_val.cls = "NoneType" THEN Raise(s, "AttributeError", "kind")
    ELSE IF gen_val.kind \in {SCALAR, EIGEN_PTR}
    THEN LET s1 == IF gen_val.kind = EIGEN_PTR
                   THEN call(s, "eigen_get_value", <<gen_val.value>>)
                   ELSE [s EXCEPT !.r = gen_val.value]
         IN call(s1, "eigen_create", <<s1.r>>)
    ELSE Raise(s, "TypeError", "Cannot convert list to EigenValue")

ensure_eigen_ptr(s, gen_val) ==
    IF ~Ok(s) THEN s
    ELSE IF gen_val.cls = "ir.Value" THEN call(s, "eigen_create", <<gen_val.value>>)
    ELSE IF gen_val.cls = "NoneType" THEN Raise(s, "AttributeError", "kind")
    ELSE IF gen_val.kind = SCALAR THEN call(s, "eigen_create", <<gen_val.value>>)
    ELSE IF gen_val.kind = EIGEN_PTR THEN [s EXCEPT !.r = gen_val.value]
    ELSE IF gen_val.kind = LIST_PTR THEN Raise(s, "TypeError", "Cannot convert list to EigenValue")
    ELSE Raise(s, "ValueError", "Unknown ValueKind")

RECURSIVE _generate(_, _)
RECURSIVE GenerateStatements(_, _, _)
RECURSIVE GenerateElements(_, _, _, _)

\* for stmt in block: self._generate(stmt); if isinstance(stmt, Return): break
\* The state's terminated field says whether the loop left through the break.
GenerateStatements(stmts, i, s) ==
    IF ~Ok(s) THEN s
    ELSE IF i > Len(stmts) THEN [s EXCEPT !.terminated = FALSE]
    ELSE LET s1 == _generate(stmts[i], s)
         IN IF ~Ok(s1) THEN s1
            ELSE IF stmts[i].type = "Return" THEN [s1 EXCEPT !.terminated = TRUE]
            ELSE GenerateStatements(stmts, i + 1, s1)

_generate_literal(n, s) ==
    IF n.literal_type = "number" THEN Returns([s EXCEPT !.r = Constant(double_type, n.value)],
                                              RawValue(Constant(double_type, n.value)))
    ELSE IF n.literal_type = "string"
    THEN LET s1 == cast(s, "bitcast", IRValue("global", "[n x i8]*", n.value), "i8*")
         IN Returns(s1, RawValue(s1.r))
    ELSE Raise(s, "NotImplementedError", n.literal_type)

\* _generate_identifier, were it to read an unbound name as the number 0.
_generate_identifier_defaulting(n, s) ==
    IF ~IsBound(s, n.name)
    THEN Returns([s EXCEPT !.r = Constant(double_type, 0)], RawValue(Constant(double_type, 0)))
    ELSE LET s1 == load(s, Lookup(s, n.name))
             s2 == call(s1, "eigen_get_value", <<s1.r>>)
         IN Returns(s2, RawValue(s2.r))

_generate_identifier(n, s) ==
    IF n.name \in Predicates /\ Len(s.local_vars) > 0
    THEN LET s1 == load(s, s.local_vars[Len(s.local_vars)].ptr)
             s2 == CASE n.name = "converged" -> call(s1, "eigen_check_converged", <<s1.r>>)
                     [] n.name = "diverging" -> call(s1, "eigen_check_diverging", <<s1.r>>)
                     [] n.name = "oscillating" -> call(s1, "eigen_check_oscillating", <<s1.r>>)
                     [] n.name = "stable" -> call(s1, "eigen_check_stable", <<s1.r>>)
                     [] n.name = "improving" -> call(s1, "eigen_check_improving", <<s1.r>>)
         IN Returns(s2, RawValue(s2.r))
    ELSE IF ~IsBound(s, n.name) THEN Raise(s, "NameError", n.name)
    ELSE LET s1 == load(s, IF Has(s.local_vars, n.name) THEN Get(s.local_vars, n.name)
                           ELSE Get(s.global_vars, n.name))
         IN IF ~Ok(s1) THEN s1
            ELSE IF IsListType(s1.r.ty) THEN Returns(s1, RawValue(s1.r))
            ELSE LET s2 == call(s1, "eigen_get_value", <<s1.r>>)
                 IN Returns(s2, RawValue(s2.r))

_generate_binary_op(n, s) ==
    LET s1 == _generate(n.left, s)
        s2 == _generate(n.right, s1)
        s3 == ensure_scalar(s2, s1.ret)
        s4 == ensure_scalar(s3, s2.ret)
        left == s3.r
        right == s4.r
        s5 == CASE n.operator = "+" -> binop(s4, "fadd", left, right)
                [] n.operator = "-" -> binop(s4, "fsub", left, right)
                [] n.operator = "*" -> binop(s4, "fmul", left, right)
                [] n.operator = "/" -> binop(s4, "fdiv", left, right)
                [] n.operator \in {">", "<", "==", "!="} -> fcmp_ordered(s4, n.operator, left, right)
                [] OTHER -> Raise(s4, "NotImplementedError", n.operator)
    IN Returns(s5, RawValue(s5.r))

_generate_unary_op(n, s) ==
    IF n.operand.type = "Identifier" /\ n.operand.name \in Predicates /\ Len(s.local_vars) > 0
    THEN LET s1 == load(s, s.local_vars[Len(s.local_vars)].ptr)
             s2 == CASE n.operand.name = "converged" -> call(s1, "eigen_check_converged", <<s1.r>>)
                     [] n.operand.name = "diverging" -> call(s1, "eigen_check_diverging", <<s1.r>>)
                     [] n.operand.name = "oscillating" -> call(s1, "eigen_check_oscillating", <<s1.r>>)
                     [] n.operand.name = "stable" -> call(s1, "eigen_check_stable", <<s1.r>>)
                     [] n.operand.name = "improving" -> call(s1, "eigen_check_improving", <<s1.r>>)
             s3 == IF n.operator = "not" THEN not_(s2, s2.r) ELSE s2
         IN Returns(s3, RawValue(s3.r))
    ELSE LET s1 == _generate(n.operand, s)
             s2 == CASE n.operator = "not" -> not_(s1, Operand(s1.ret))
                     [] n.operator = "-" -> fneg(s1, Operand(s1.ret))
                     [] OTHER -> Raise(s1, "NotImplementedError", n.operator)
         IN Returns(s2, RawValue(s2.r))

\* _generate_assignment that copies the number of a reference into the
\* reference a bound name holds.
_generate_assignment_updating(n, s) ==
    LET s1 == _generate(n.expression, s)
        raw == s1.ret
        gen_value == IF raw.cls = "ir.Value"
                     THEN IF IsListType(raw.value.ty) THEN GeneratedValue(raw.value, LIST_PTR)
                          ELSE GeneratedValue(raw.value, SCALAR)
                     ELSE raw
    IN IF ~Ok(s1) THEN s1
       ELSE IF gen_value.cls = "NoneType" THEN Raise(s1, "AttributeError", "kind")
       ELSE IF gen_value.kind = LIST_PTR
       THEN LET s2 == alloca(s1, eigen_list_ptr, n.identifier)
                s3 == store(s2, gen_value.value, s2.r)
            IN IF ~Ok(s3) THEN s3
               ELSE Returns([s3 EXCEPT !.local_vars = Set(@, n.identifier, s2.r)], PyNone)
       ELSE IF Has(s1.local_vars, n.identifier)
       THEN IF gen_value.kind = EIGEN_PTR
            THEN LET s2 == load(s1, Get(s1.local_vars, n.identifier))
                     s3 == ensure_scalar(s2, gen_value)
                     s4 == call(s3, "eigen_update", <<s2.r, s3.r>>)
                 IN Returns(s4, PyNone)
            ELSE LET s2 == load(s1, Get(s1.local_vars, n.identifier))
                     s3 == ensure_scalar(s2, gen_value)
                     s4 == call(s3, "eigen_update", <<s2.r, s3.r>>)
                 IN Returns(s4, PyNone)
       ELSE LET s2 == ensure_eigen_ptr(s1, gen_value)
                s3 == alloca(s2, eigen_value_ptr, n.identifier)
                s4 == store(s3, s2.r, s3.r)
            IN IF ~Ok(s4) THEN s4
               ELSE Returns([s4 EXCEPT !.local_vars = Set(@, n.identifier, s3.r)], PyNone)

\* _generate_assignment, were it to bind a new tracked value on every
\* assignment of a scalar to a name that is already bound.
_generate_assignment_rebinding(n, s) ==
    LET s1 == _generate(n.expression, s)
        raw == s1.ret
        gen_value == IF raw.cls = "ir.Value"
                     THEN IF IsListType(raw.value.ty) THEN GeneratedValue(raw.value, LIST_PTR)
                          ELSE GeneratedValue(raw.value, SCALAR)
                     ELSE raw
    IN IF ~Ok(s1) THEN s1
       ELSE IF gen_value.cls = "NoneType" THEN Raise(s1, "AttributeError", "kind")
       ELSE IF gen_value.kind = LIST_PTR
       THEN LET s2 == alloca(s1, eigen_list_ptr, n.identifier)
                s3 == store(s2, gen_value.value, s2.r)
            IN IF ~Ok(s3) THEN s3
               ELSE Returns([s3 EXCEPT !.local_vars = Set(@, n.identifier, s2.r)], PyNone)
       ELSE IF Has(s1.local_vars, n.identifier)
       THEN LET s2 == ensure_eigen_ptr(s1, gen_value)
            IN Returns(store(s2, s2.r, Get(s1.local_vars, n.identifier)), PyNone)
       ELSE LET s2 == ensure_eigen_ptr(s1, gen_value)
                s3 == alloca(s2, eigen_value_ptr, n.identifier)
                s4 == store(s3, s2.r, s3.r)
            IN IF ~Ok(s4) THEN s4
               ELSE Returns([s4 EXCEPT !.local_vars = Set(@, n.identifier, s3.r)], PyNone)

_generate_assignment(n, s) ==
    LET s1 == _generate(n.expression, s)
        raw == s1.ret
        gen_value == IF raw.cls = "ir.Value"
                     THEN IF IsListType(raw.value.ty) THEN GeneratedValue(raw.value, LIST_PTR)
                          ELSE GeneratedValue(raw.value, SCALAR)
                     ELSE raw
    IN IF ~Ok(s1) THEN s1
       ELSE IF gen_value.cls = "NoneType" THEN Raise(s1, "AttributeError", "kind")
       ELSE IF gen_value.kind = LIST_PTR
       THEN LET s2 == alloca(s1, eigen_list_ptr, n.identifier)
                s3 == store(s2, gen_value.value, s2.r)
            IN IF ~Ok(s3) THEN s3
               ELSE Returns([s3 EXCEPT !.local_vars = Set(@, n.identifier, s2.r)], PyNone)
       ELSE IF Has(s1.local_vars, n.identifier)
       THEN IF gen_value.kind = EIGEN_PTR
            THEN Returns(store(s1, gen_value.value, Get(s1.local_vars, n.identifier)), PyNone)
            ELSE LET s2 == load(s1, Get(s1.local_vars, n.identifier))
                     s3 == ensure_scalar(s2, gen_value)
                     s4 == call(s3, "eigen_update", <<s2.r, s3.r>>)
                 IN Returns(s4, PyNone)
       ELSE LET s2 == ensure_eigen_ptr(s1, gen_value)
                s3 == alloca(s2, eigen_value_ptr, n.identifier)
                s4 == store(s3, s2.r, s3.r)
            IN IF ~Ok(s4) THEN s4
               ELSE Returns([s4 EXCEPT !.local_vars = Set(@, n.identifier, s3.r)], PyNone)

\* _generate_relation, were it to lower every argument as an expression and
\* pass its number in a new tracked value.
_generate_relation_copying(n, s) ==
    IF n.left.type = "Identifier" /\ n.left.name = "print"
    THEN LET s1 == _generate(n.right, s)
             s2 == ensure_scalar(s1, s1.ret)
             s3 == cast(s2, "bitcast", IRValue("global", "[n x i8]*", 0), "i8*")
             s4 == call(s3, "printf", <<s3.r, s2.r>>)
         IN Returns(s4, RawValue(s4.r))
    ELSE IF n.left.type = "Identifier" /\ n.left.name \in DOMAIN s.functions
    THEN LET g == _generate(n.right, s)
             s1 == ensure_scalar(g, g.ret)
             s2 == call(s1, "eigen_create", <<s1.r>>)
             s3 == call(s2, n.left.name, <<s2.r>>)
         IN Returns(s3, RawValue(s3.r))
    ELSE Raise(s, "NotImplementedError", "Relation")

_generate_relation(n, s) ==
    IF n.left.type = "Identifier" /\ n.left.name = "print"
    THEN LET s1 == _generate(n.right, s)
             s2 == ensure_scalar(s1, s1.ret)
             s3 == cast(s2, "bitcast", IRValue("global", "[n x i8]*", 0), "i8*")
             s4 == call(s3, "printf", <<s3.r, s2.r>>)
         IN Returns(s4, RawValue(s4.r))
    ELSE IF n.left.type = "Identifier" /\ n.left.name \in DOMAIN s.functions
    THEN LET arg == n.right
             s1 == IF arg.type = "Identifier"
                   THEN IF IsBound(s, arg.name) THEN load(s, Lookup(s, arg.name))
                        ELSE Raise(s, "NameError", arg.name)
                   ELSE LET g == _generate(arg, s) IN ensure_eigen_ptr(g, g.ret)
             s2 == call(s1, n.left.name, <<s1.r>>)
         IN Returns(s2, RawValue(s2.r))
    ELSE Raise(s, "NotImplementedError", "Relation")

\* _generate_conditional, were the else branch to read the then branch's
\* termination flag.
_generate_conditional_one_flag(n, s) ==
    LET s1 == _generate(n.condition, s)
        cond == Operand(s1.ret)
        s2 == append_basic_block(s1, "if.then")
        then_block == s2.r.id
        has_else == Len(n.else_block) > 0
        s3 == IF has_else THEN append_basic_block(s2, "if.else") ELSE s2
        else_block == s3.r.id
        s4 == append_basic_block(s3, "if.end")
        merge_block == s4.r.id
        s5 == IF has_else THEN cbranch(s4, cond, then_block, else_block)
              ELSE cbranch(s4, cond, then_block, merge_block)
        s6 == GenerateStatements(n.if_block, 1, position_at_end(s5, then_block))
        s7 == IF Ok(s6) /\ ~s6.terminated THEN branch(s6, merge_block) ELSE s6
        s8 == IF has_else THEN GenerateStatements(n.else_block, 1, position_at_end(s7, else_block)) ELSE s7
        s9 == IF has_else /\ Ok(s8) /\ ~s6.terminated THEN branch(s8, merge_block) ELSE s8
    IN Returns(position_at_end(s9, merge_block), PyNone)

_generate_conditional(n, s) ==
    LET s1 == _generate(n.condition, s)
        cond == Operand(s1.ret)
        s2 == append_basic_block(s1, "if.then")
        then_block == s2.r.id
        has_else == Len(n.else_block) > 0
        s3 == IF has_else THEN append_basic_block(s2, "if.else") ELSE s2
        else_block == s3.r.id
        s4 == append_basic_block(s3, "if.end")
        merge_block == s4.r.id
        s5 == IF has_else THEN cbranch(s4, cond, then_block, else_block)
              ELSE cbranch(s4, cond, then_block, merge_block)
        s6 == GenerateStatements(n.if_block, 1, position_at_end(s5, then_block))
        s7 == IF Ok(s6) /\ ~s6.terminated THEN branch(s6, merge_block) ELSE s6
        s8 == IF has_else THEN GenerateStatements(n.else_block, 1, position_at_end(s7, else_block)) ELSE s7
        s9 == IF has_else /\ Ok(s8) /\ ~s8.terminated THEN branch(s8, merge_block) ELSE s8
    IN Returns(position_at_end(s9, merge_block), PyNone)

\* A lowering in which `what` copies: it reads the number through the
\* reference and creates a tracked value for it.
_generate_interrogative_copying(n, s) ==
    IF n.expression.type # "Identifier" THEN Raise(s, "NotImplementedError", "interrogative")
    ELSE IF ~IsBound(s, n.expression.name) THEN Raise(s, "NameError", n.expression.name)
    ELSE LET s1 == load(s, Lookup(s, n.expression.name))
             s2 == call(s1, "eigen_get_value", <<s1.r>>)
             s3 == call(s2, "eigen_create", <<s2.r>>)
         IN Returns(s3, GeneratedValue(s3.r, EIGEN_PTR))

\* A loop that runs its body before it tests its condition.
_generate_loop_body_first(n, s) ==
    LET s1 == append_basic_block(s, "loop.cond")
        loop_cond == s1.r.id
        s2 == append_basic_block(s1, "loop.body")
        loop_body == s2.r.id
        s3 == append_basic_block(s2, "loop.end")
        loop_end == s3.r.id
        s4 == position_at_end(branch(s3, loop_body), loop_cond)
        s5 == _generate(n.condition, s4)
        s6 == cbranch(s5, Operand(s5.ret), loop_body, loop_end)
        s7 == GenerateStatements(n.body, 1, position_at_end(s6, loop_body))
        s8 == IF Ok(s7) /\ ~s7.terminated THEN branch(s7, loop_cond) ELSE s7
    IN Returns(position_at_end(s8, loop_end), PyNone)

_generate_loop(n, s) ==
    LET s1 == append_basic_block(s, "loop.cond")
        loop_cond == s1.r.id
        s2 == append_basic_block(s1, "loop.body")
        loop_body == s2.r.id
        s3 == append_basic_block(s2, "loop.end")
        loop_end == s3.r.id
        s4 == position_at_end(branch(s3, loop_cond), loop_cond)
        s5 == _generate(n.condition, s4)
        s6 == cbranch(s5, Operand(s5.ret), loop_body, loop_end)
        s7 == GenerateStatements(n.body, 1, position_at_end(s6, loop_body))
        s8 == IF Ok(s7) /\ ~s7.terminated THEN branch(s7, loop_cond) ELSE s7
    IN Returns(position_at_end(s8, loop_end), PyNone)

_generate_interrogative(n, s) ==
    IF n.expression.type # "Identifier" THEN Raise(s, "NotImplementedError", "Interrogatives only support simple identifiers")
    ELSE IF ~IsBound(s, n.expression.name) THEN Raise(s, "NameError", n.expression.name)
    ELSE LET s1 == load(s, Lookup(s, n.expression.name))
             eigen_ptr == s1.r
         IN CASE n.interrogative = "what" -> Returns(s1, GeneratedValue(eigen_ptr, EIGEN_PTR))
              [] n.interrogative = "why" ->
                   LET s2 == call(s1, "eigen_get_gradient", <<eigen_ptr>>)
                   IN Returns(s2, GeneratedValue(s2.r, SCALAR))
              [] n.interrogative = "how" ->
                   LET s2 == call(s1, "eigen_get_stability", <<eigen_ptr>>)
                   IN Returns(s2, GeneratedValue(s2.r, SCALAR))
              [] n.interrogative = "when" ->
                   LET s2 == call(s1, "eigen_get_iteration", <<eigen_ptr>>)
                       s3 == cast(s2, "sitofp", s2.r, double_type)
                   IN Returns(s3, GeneratedValue(s3.r, SCALAR))
              [] OTHER -> Raise(s1, "NotImplementedError", n.interrogative)

\* _generate_function_def, were it to leave a body without a Return open.
_generate_function_def_open(n, s) ==
    IF n.name \in ModuleNames(s.module) THEN Raise(s, "DuplicatedNameError", n.name)
    ELSE LET func == Len(s.module) + 1
             s1 == [s EXCEPT !.module = Append(@, Function(n.name)),
                             !.functions = (n.name :> func) @@ @]
             s2 == [s1 EXCEPT !.module[func].blocks = <<BasicBlock("entry")>>,
                              !.current_function = func,
                              !.builder = [fn |-> func, block |-> 1],
                              !.local_vars = <<>>]
             s3 == alloca(s2, eigen_value_ptr, "n")
             s4 == store(s3, IRValue("arg", eigen_value_ptr, func), s3.r)
             s5 == [s4 EXCEPT !.local_vars = Set(@, "n", s3.r)]
             s6 == GenerateStatements(n.body, 1, s5)
         IN IF ~Ok(s6) THEN s6
            ELSE Returns([s6 EXCEPT !.current_function = s.current_function,
                                    !.builder = s.builder,
                                    !.local_vars = s.local_vars], PyNone)

\* _generate_function_def, were it to go on with the body's symbol table.
_generate_function_def_leaking(n, s) ==
    IF n.name \in ModuleNames(s.module) THEN Raise(s, "DuplicatedNameError", n.name)
    ELSE LET func == Len(s.module) + 1
             s1 == [s EXCEPT !.module = Append(@, Function(n.name)),
                             !.functions = (n.name :> func) @@ @]
             s2 == [s1 EXCEPT !.module[func].blocks = <<BasicBlock("entry")>>,
                              !.current_function = func,
                              !.builder = [fn |-> func, block |-> 1],
                              !.local_vars = <<>>]
             s3 == alloca(s2, eigen_value_ptr, "n")
             s4 == store(s3, IRValue("arg", eigen_value_ptr, func), s3.r)
             s5 == [s4 EXCEPT !.local_vars = Set(@, "n", s3.r)]
             s6 == GenerateStatements(n.body, 1, s5)
             s7 == IF Ok(s6) /\ ~s6.terminated THEN ret(s6, Constant(double_type, 0)) ELSE s6
         IN IF ~Ok(s7) THEN s7
            ELSE Returns([s7 EXCEPT !.current_function = s.current_function,
                                    !.builder = s.builder], PyNone)

\* _generate_function_def, were it to enter the name in the function table
\* when the body has been lowered.
_generate_function_def_late(n, s) ==
    IF n.name \in ModuleNames(s.module) THEN Raise(s, "DuplicatedNameError", n.name)
    ELSE LET func == Len(s.module) + 1
             s1 == [s EXCEPT !.module = Append(@, Function(n.name))]
             s2 == [s1 EXCEPT !.module[func].blocks = <<BasicBlock("entry")>>,
                              !.current_function = func,
                              !.builder = [fn |-> func, block |-> 1],
                              !.local_vars = <<>>]
             s3 == alloca(s2, eigen_value_ptr, "n")
             s4 == store(s3, IRValue("arg", eigen_value_ptr, func), s3.r)
             s5 == [s4 EXCEPT !.local_vars = Set(@, "n", s3.r)]
             s6 == GenerateStatements(n.body, 1, s5)
             s7 == IF Ok(s6) /\ ~s6.terminated THEN ret(s6, Constant(double_type, 0)) ELSE s6
         IN IF ~Ok(s7) THEN s7
            ELSE Returns([s7 EXCEPT !.functions = (n.name :> func) @@ @,
                                    !.current_function = s.current_function,
                                    !.builder = s.builder,
                                    !.local_vars = s.local_vars], PyNone)

_generate_function_def(n, s) ==
    IF n.name \in ModuleNames(s.module) THEN Raise(s, "DuplicatedNameError", n.name)
    ELSE LET func == Len(s.module) + 1
             s1 == [s EXCEPT !.module = Append(@, Function(n.name)),
                             !.functions = (n.name :> func) @@ @]
             prev_function == s.current_function
             prev_builder == s.builder
             prev_local_vars == s.local_vars
             s2 == [s1 EXCEPT !.module[func].blocks = <<BasicBlock("entry")>>,
                              !.current_function = func,
                              !.builder = [fn |-> func, block |-> 1],
                              !.local_vars = <<>>]
             s3 == alloca(s2, eigen_value_ptr, "n")
             param_ptr == s3.r
             s4 == store(s3, IRValue("arg", eigen_value_ptr, func), param_ptr)
             s5 == [s4 EXCEPT !.local_vars = Set(@, "n", param_ptr)]
             s6 == GenerateStatements(n.body, 1, s5)
             s7 == IF Ok(s6) /\ ~s6.terminated THEN ret(s6, Constant(double_type, 0)) ELSE s6
         IN IF ~Ok(s7) THEN s7
            ELSE Returns([s7 EXCEPT !.current_function = prev_function,
                                    !.builder = prev_builder,
                                    !.local_vars = prev_local_vars], PyNone)

_generate_return(n, s) ==
    IF n.expression.type # "NoneType"
    THEN LET s1 == _generate(n.expression, s)
             s2 == ret(s1, Operand(s1.ret))
         IN Returns(s2, s1.ret)
    ELSE Returns(ret(s, Constant(double_type, 0)), RawValue(Constant(double_type, 0)))

\* for i, elem in enumerate(node.elements): eigen_list_set(list_ptr, i, generate(elem))
GenerateElements(elements, i, list_ptr, s) ==
    IF ~Ok(s) \/ i > Len(elements) THEN s
    ELSE LET s1 == _generate(elements[i], s)
             s2 == call(s1, "eigen_list_set", <<list_ptr, Constant("i64", i - 1), Operand(s1.ret)>>)
         IN GenerateElements(elements, i + 1, list_ptr, s2)

_generate_list_literal(n, s) ==
    LET s1 == call(s, "eigen_list_create", <<Constant("i64", Len(n.elements))>>)
        list_ptr == s1.r
        s2 == GenerateElements(n.elements, 1, list_ptr, s1)
    IN Returns([s2 EXCEPT !.r = list_ptr], RawValue(list_ptr))

_generate_index(n, s) ==
    LET s1 == _generate(n.list_expr, s)
        list_expr == Operand(s1.ret)
        s2 == _generate(n.index_expr, s1)
        index_expr == Operand(s2.ret)
        s3 == IF ~Ok(s2) THEN s2
              ELSE IF ~HasType(index_expr) THEN Raise(s2, "AttributeError", "type")
              ELSE IF index_expr.ty = double_type THEN cast(s2, "fptosi", index_expr, "i64")
              ELSE [s2 EXCEPT !.r = index_expr]
        s4 == call(s3, "eigen_list_get", <<list_expr, s3.r>>)
    IN Returns(s4, RawValue(s4.r))

\* _generate, were it to accept a Break and emit nothing for it.
_generate_break_as_noop(n, s) ==
    IF ~Ok(s) THEN s
    ELSE CASE n.type = "Literal" -> _generate_literal(n, s)
           [] n.type = "Identifier" -> _generate_identifier(n, s)
           [] n.type = "BinaryOp" -> _generate_binary_op(n, s)
           [] n.type = "UnaryOp" -> _generate_unary_op(n, s)
           [] n.type = "Assignment" -> _generate_assignment(n, s)
           [] n.type = "Relation" -> _generate_relation(n, s)
           [] n.type = "Conditional" -> _generate_conditional(n, s)
           [] n.type = "Loop" -> _generate_loop(n, s)
           [] n.type = "Interrogative" -> _generate_interrogative(n, s)
           [] n.type = "FunctionDef" -> _generate_function_def(n, s)
           [] n.type = "Return" -> _generate_return(n, s)
           [] n.type = "ListLiteral" -> _generate_list_literal(n, s)
           [] n.type = "Index" -> _generate_index(n, s)
           [] n.type = "Break" -> Returns(s, PyNone)
           [] OTHER -> Raise(s, "NotImplementedError", n.type)

_generate(n, s) ==
    IF ~Ok(s) THEN s
    ELSE CASE n.type = "Literal" -> _generate_literal(n, s)
           [] n.type = "Identifier" -> _generate_identifier(n, s)
           [] n.type = "BinaryOp" -> _generate_binary_op(n, s)
           [] n.type = "UnaryOp" -> _generate_unary_op(n, s)
           [] n.type = "Assignment" -> _generate_assignment(n, s)
           [] n.type = "Relation" -> _generate_relation(n, s)
           [] n.type = "Conditional" -> _generate_conditional(n, s)
           [] n.type = "Loop" -> _generate_loop(n, s)
           [] n.type = "Interrogative" -> _generate_interrogative(n, s)
           [] n.type = "FunctionDef" -> _generate_function_def(n, s)
           [] n.type = "Return" -> _generate_return(n, s)
           [] n.type = "ListLiteral" -> _generate_list_literal(n, s)
           [] n.type = "Index" -> _generate_index(n, s)
           [] OTHER -> Raise(s, "NotImplementedError", n.type)

(***************************************************************************)
(* What the emitted IR does when it runs: the instructions of LLVM and the *)
(* runtime accessors the IR calls (create, update and read a tracked       *)
(* value).  Numbers are integers; a tracked value is a heap cell with an   *)
(* identity.                                                               *)
(***************************************************************************)
MaxSteps == 80

\* The distance between the stack frames of two nested calls: more than any
\* instruction's identity, so that no two live stack slots share an address.
FrameStride == 1000

Num(v) == [t |-> "num", v |-> v]

Bool(b) == [t |-> "bool", v |-> IF b THEN 1 ELSE 0]

Ref(id) == [t |-> "ref", v |-> id]

Slot(id) == [t |-> "slot", v |-> id]

ListRef(id) == [t |-> "list", v |-> id]

Undef == [t |-> "undef", v |-> 0]

\* The machine before main runs: no register, no stack slot, no tracked value.
InitRuntime ==
    [env |-> <<>>, mem |-> <<>>, heap |-> <<>>, lists |-> <<>>, out |-> <<>>,
     depth |-> 0, status |-> "running", retval |-> Undef]

\* The value of an operand: a constant, or the register an instruction or an
\* argument set.
Eval(rt, v) ==
    IF v.k = "const" THEN Num(v.id)
    ELSE IF v.k \in {"inst", "arg"} /\ <<v.k, v.id>> \in DOMAIN rt.env THEN rt.env[<<v.k, v.id>>]
    ELSE Undef

SetReg(rt, res, val) == [rt EXCEPT !.env = (<<res.k, res.id>> :> val) @@ @]

Trap(rt, why) == [rt EXCEPT !.status = why]

\* eigen_create(value): a new tracked value, distinct from every other, also
\* from those the same call created when it ran before.
EigenCreate(rt, res, x) ==
    LET id == Cardinality(DOMAIN rt.heap) + 1
    IN SetReg([rt EXCEPT !.heap = (id :> [value |-> x.v, iteration |-> 0]) @@ @], res, Ref(id))

\* eigen_update(ref, value): the tracked value's payload changes in place.
EigenUpdate(rt, ref, x) ==
    IF ref.t = "ref" /\ ref.v \in DOMAIN rt.heap
    THEN [rt EXCEPT !.heap[ref.v] = [value |-> x.v, iteration |-> @.iteration + 1]]
    ELSE Trap(rt, "bad reference")

\* eigen_get_value(ref)
EigenGetValue(rt, res, ref) ==
    IF ref.t = "ref" /\ ref.v \in DOMAIN rt.heap
    THEN SetReg(rt, res, Num(rt.heap[ref.v].value))
    ELSE Trap(rt, "bad reference")

\* eigen_get_iteration(ref): the number of updates the tracked value has had.
EigenGetIteration(rt, res, ref) ==
    IF ref.t = "ref" /\ ref.v \in DOMAIN rt.heap
    THEN SetReg(rt, res, Num(rt.heap[ref.v].iteration))
    ELSE Trap(rt, "bad reference")

Arith(op, a, b) ==
    IF a.t # "num" \/ b.t # "num" THEN Undef
    ELSE CASE op = "fadd" -> Num(a.v + b.v)
           [] op = "fsub" -> Num(a.v - b.v)
           [] op = "fmul" -> Num(a.v * b.v)
           [] op = "fdiv" -> IF b.v # 0 /\ a.v % b.v = 0 THEN Num(a.v \div b.v) ELSE Undef

Compare(cmpop, a, b) ==
    IF a.t # "num" \/ b.t # "num" THEN Undef
    ELSE CASE cmpop = "<" -> Bool(a.v < b.v)
           [] cmpop = ">" -> Bool(a.v > b.v)
           [] cmpop = "==" -> Bool(a.v = b.v)
           [] cmpop = "!=" -> Bool(a.v # b.v)

\* One instruction that is neither a terminator nor a call of a user function.
Step(rt, ins) ==
    LET a(i) == Eval(rt, ins.args[i])
        frame == rt.depth * FrameStride
    IN CASE ins.op = "alloca" ->
              SetReg([rt EXCEPT !.mem = (frame + ins.res.id :> Undef) @@ @], ins.res, Slot(frame + ins.res.id))
         [] ins.op = "store" ->
              IF a(2).t = "slot" THEN [rt EXCEPT !.mem = (a(2).v :> a(1)) @@ @] ELSE Trap(rt, "bad store")
         [] ins.op = "load" ->
              IF a(1).t = "slot" /\ a(1).v \in DOMAIN rt.mem THEN SetReg(rt, ins.res, rt.mem[a(1).v])
              ELSE Trap(rt, "bad load")
         [] ins.op \in {"fadd", "fsub", "fmul", "fdiv"} -> SetReg(rt, ins.res, Arith(ins.op, a(1), a(2)))
         [] ins.op = "fcmp" -> SetReg(rt, ins.res, Compare(ins.callee, a(1), a(2)))
         [] ins.op = "call" /\ ins.callee = "eigen_create" -> EigenCreate(rt, ins.res, a(1))
         [] ins.op = "call" /\ ins.callee = "eigen_update" -> EigenUpdate(rt, a(1), a(2))
         [] ins.op = "call" /\ ins.callee = "eigen_get_value" -> EigenGetValue(rt, ins.res, a(1))
         [] ins.op = "call" /\ ins.callee = "eigen_get_iteration" -> EigenGetIteration(rt, ins.res, a(1))
         [] ins.op = "sitofp" -> SetReg(rt, ins.res, a(1))
         [] ins.op = "call" /\ ins.callee = "printf" -> [rt EXCEPT !.out = Append(@, a(2))]
         [] ins.op = "call" /\ ins.callee = "eigen_list_create" ->
              SetReg([rt EXCEPT !.lists = (ins.res.id :> <<>>) @@ @], ins.res, ListRef(ins.res.id))
         [] OTHER -> SetReg(rt, ins.res, Undef)

RECURSIVE Execute(_, _, _, _, _, _)

\* Run function f of the module from instruction i of block b, for at most
\* fuel instructions.  Execution stops at a ret ("returned"), at the end of a
\* block that has no terminator yet ("open"), or in a trap.
Execute(mod, f, b, i, rt, fuel) ==
    LET instrs == mod[f].blocks[b].instrs
        ins == instrs[i]
    IN IF rt.status # "running" THEN rt
       ELSE IF fuel = 0 THEN Trap(rt, "out of fuel")
       ELSE IF i > Len(instrs) THEN Trap(rt, "open")
       ELSE CASE ins.op = "ret" -> [rt EXCEPT !.status = "returned", !.retval = Eval(rt, ins.args[1])]
              [] ins.op = "br" -> Execute(mod, f, ins.targets[1], 1, rt, fuel - 1)
              [] ins.op = "cbranch" ->
                   LET c == Eval(rt, ins.args[1])
                   IN IF c.t # "bool" THEN Trap(rt, "bad condition")
                      ELSE Execute(mod, f, ins.targets[IF c.v = 1 THEN 1 ELSE 2], 1, rt, fuel - 1)
              [] ins.op = "call" /\ ins.callee \notin DOMAIN RuntimeFunctions ->
                   LET g == FunctionIndex(mod, ins.callee)
                       entered == [rt EXCEPT !.env = (<<"arg", g>> :> Eval(rt, ins.args[1])) @@ @,
                                             !.depth = @ + 1]
                       after == Execute(mod, g, 1, 1, entered, fuel - 1)
                   IN IF g = 0 \/ after.status # "returned" THEN Trap(after, "bad call")
                      ELSE Execute(mod, f, b, i + 1,
                                   SetReg([after EXCEPT !.status = "running", !.env = rt.env,
                                                        !.depth = rt.depth],
                                          ins.res, after.retval),
                                   fuel - 1)
              [] OTHER -> Execute(mod, f, b, i + 1, Step(rt, ins), fuel - 1)

\* main run from its entry block.
RunMain(mod) == Execute(mod, 1, 1, 1, InitRuntime, MaxSteps)

\* The tracked value a variable's slot holds, and the number read through it.
ReferenceOf(rt, table, name) == rt.mem[Get(table, name).id]

ReadThrough(rt, table, name) == rt.heap[ReferenceOf(rt, table, name).v].value

(***************************************************************************)
(* Parser: tokens and the recursive descent, one operator per method.      *)
(* Each takes the parser (its tokens, its position, the error it raised,   *)
(* the value the last call returned) and returns the parser after the      *)
(* call.  position counts from 0 as in the code.                           *)
(***************************************************************************)
Token(type, value) == [type |-> type, value |-> value]

\* current_token() returns None past the end of the list.
NoToken == Token("None", "")

\* The token kinds tokenizer.py declares.
TokenType ==
    {"OF", "IS", "IF", "ELSE", "LOOP", "WHILE", "DEFINE", "AS", "RETURN", "BREAK", "NULL",
     "NUMBER", "STRING", "VECTOR", "IDENTIFIER", "COLON", "COMMA", "LPAREN", "RPAREN",
     "LBRACKET", "RBRACKET", "NEWLINE", "INDENT", "DEDENT", "EOF"}

\* The operator kinds the parser names, with the operator each stands for.
ComparisonTokens == {"EQUALS", "LESS_THAN", "GREATER_THAN"}

AdditiveTokens == {"PLUS", "MINUS"}

MultiplicativeTokens == {"MULTIPLY", "DIVIDE"}

op_map ==
    [EQUALS |-> "=", LESS_THAN |-> "<", GREATER_THAN |-> ">",
     PLUS |-> "+", MINUS |-> "-", MULTIPLY |-> "*", DIVIDE |-> "/"]

interrogative_map ==
    [WHO |-> "who", WHAT |-> "what", WHEN |-> "when", WHERE |-> "where", WHY |-> "why",
     HOW |-> "how"]

NoSyntaxError == [type |-> "none", expected |-> "", got |-> ""]

Parser(toks) == [tokens |-> toks, position |-> 0, err |-> NoSyntaxError, ret |-> NoNode]

\* No call has raised so far.
Parsing(p) == p.err.type = "none"

current_token(p) == IF p.position >= Len(p.tokens) THEN NoToken ELSE p.tokens[p.position + 1]

peek_token(p, offset) ==
    IF p.position + offset >= Len(p.tokens) THEN NoToken ELSE p.tokens[p.position + offset + 1]

advance(p) == IF current_token(p).type # "None" THEN [p EXCEPT !.position = @ + 1] ELSE p

\* raise SyntaxError: what was expected ("" where the code names nothing) and
\* the kind of the current token, EOF when there is none.
SyntaxError(p, expected) ==
    [p EXCEPT !.err = [type |-> "SyntaxError", expected |-> expected,
                       got |-> IF current_token(p).type = "None" THEN "EOF"
                               ELSE current_token(p).type]]

\* A loop whose iteration changes nothing never ends.
Diverges(p) == [p EXCEPT !.err = [type |-> "diverges", expected |-> "", got |-> current_token(p).type]]

expect(p, token_type) ==
    IF ~Parsing(p) THEN p
    ELSE IF current_token(p).type # token_type THEN SyntaxError(p, token_type)
    ELSE advance(p)

\* if self.current_token() and self.current_token().type == kind: self.advance()
Optional(p, kind) == IF Parsing(p) /\ current_token(p).type = kind THEN advance(p) ELSE p

Yield(p, value) == IF Parsing(p) THEN [p EXCEPT !.ret = value] ELSE p

\* Rest at value, with value computed once however often Rest reads it.
Bind(value, Rest(_)) == CHOOSE r \in {Rest(x) : x \in {value}} : TRUE

RECURSIVE parse_statement(_)
RECURSIVE parse_block(_)
RECURSIVE BlockStatements(_, _)
RECURSIVE parse_expression(_)
RECURSIVE parse_additive(_)
RECURSIVE parse_multiplicative(_)
RECURSIVE parse_relation(_)
RECURSIVE parse_primary(_)
RECURSIVE ComparisonOperators(_)
RECURSIVE AdditiveOperators(_)
RECURSIVE MultiplicativeOperators(_)
RECURSIVE ParenElements(_, _)
RECURSIVE BracketElements(_, _)
RECURSIVE RelationOperators(_)

parse_assignment(p) ==
    Bind(parse_expression(expect(expect(p, "IDENTIFIER"), "IS")), LAMBDA p1 :
        Yield(Optional(p1, "NEWLINE"), Assignment(current_token(p).value, p1.ret)))

parse_definition(p) ==
    LET p1 == expect(p, "DEFINE")
        p2 == expect(Optional(expect(p1, "IDENTIFIER"), "AS"), "COLON")
    IN Bind(parse_block(Optional(p2, "NEWLINE")), LAMBDA p3 :
           Yield(p3, FunctionDef(current_token(p1).value, <<>>, p3.ret)))

parse_conditional(p) ==
    Bind(parse_expression(expect(p, "IF")), LAMBDA p1 :
    Bind(parse_block(Optional(expect(p1, "COLON"), "NEWLINE")), LAMBDA p2 :
        IF Parsing(p2) /\ current_token(p2).type = "ELSE"
        THEN Bind(parse_block(Optional(expect(advance(p2), "COLON"), "NEWLINE")), LAMBDA p3 :
                 Yield(p3, Conditional(p1.ret, p2.ret, p3.ret)))
        ELSE Yield(p2, Conditional(p1.ret, p2.ret, <<>>))))

parse_loop(p) ==
    Bind(parse_expression(expect(expect(p, "LOOP"), "WHILE")), LAMBDA p1 :
    Bind(parse_block(Optional(expect(p1, "COLON"), "NEWLINE")), LAMBDA p2 :
        Yield(p2, Loop(p1.ret, p2.ret))))

parse_return(p) ==
    Bind(parse_expression(expect(p, "RETURN")), LAMBDA p1 :
        Yield(Optional(p1, "NEWLINE"), Return(p1.ret)))

\* The number, string, null and identifier literals both primaries share.
Atom(token) ==
    CASE token.type = "NUMBER" -> Literal(token.value, "number")
      [] token.type = "STRING" -> Literal(token.value, "string")
      [] token.type = "NULL" -> Literal(NoNode, "null")
      [] token.type = "IDENTIFIER" -> Identifier(token.value)

parse_identifier_or_literal(p) ==
    LET token == current_token(p)
    IN IF ~Parsing(p) THEN p
       ELSE IF token.type = "None" THEN SyntaxError(p, "")
       ELSE IF token.type \in {"NUMBER", "STRING", "NULL", "IDENTIFIER"}
       THEN Yield(advance(p), Atom(token))
       ELSE IF token.type = "LPAREN"
       THEN Bind(parse_expression(advance(p)), LAMBDA p1 : Yield(expect(p1, "RPAREN"), p1.ret))
       ELSE SyntaxError(p, "identifier or literal")

\* parse_interrogative taking any primary as its operand.
parse_interrogative_of_primary(p) ==
    Bind(parse_primary(Optional(advance(p), "IS")), LAMBDA p1 :
        Yield(p1, Interrogative(interrogative_map[current_token(p).type], p1.ret)))

parse_interrogative(p) ==
    Bind(parse_identifier_or_literal(Optional(advance(p), "IS")), LAMBDA p1 :
        Yield(p1, Interrogative(interrogative_map[current_token(p).type], p1.ret)))

\* while self.current_token() and self.current_token().type != DEDENT
BlockStatements(p, statements) ==
    IF ~Parsing(p) THEN p
    ELSE IF current_token(p).type \in {"None", "DEDENT"} THEN Yield(p, statements)
    ELSE IF current_token(p).type = "NEWLINE" THEN BlockStatements(advance(p), statements)
    ELSE Bind(parse_statement(p), LAMBDA p1 :
             IF ~Parsing(p1) THEN p1
             ELSE IF p1.ret.type # "NoneType" THEN BlockStatements(p1, Append(statements, p1.ret))
             ELSE IF p1.position = p.position THEN Diverges(p1)
             ELSE BlockStatements(p1, statements))

parse_block(p) ==
    Bind(BlockStatements(expect(p, "INDENT"), <<>>), LAMBDA p1 :
        Yield(expect(p1, "DEDENT"), p1.ret))

parse_statement(p) ==
    LET token == current_token(p)
    IN IF ~Parsing(p) THEN p
       ELSE IF token.type \in {"None", "EOF"} THEN Yield(p, NoNode)
       ELSE IF token.type = "NEWLINE" THEN Yield(advance(p), NoNode)
       ELSE IF token.type = "DEFINE" THEN parse_definition(p)
       ELSE IF token.type = "IF" THEN parse_conditional(p)
       ELSE IF token.type = "LOOP" THEN parse_loop(p)
       ELSE IF token.type = "RETURN" THEN parse_return(p)
       ELSE IF token.type = "BREAK" THEN Yield(Optional(advance(p), "NEWLINE"), Break)
       ELSE IF token.type = "IDENTIFIER" /\ peek_token(p, 1).type = "IS" THEN parse_assignment(p)
       ELSE Bind(parse_expression(p), LAMBDA p1 : Yield(Optional(p1, "NEWLINE"), p1.ret))

\* The while loops of parse_comparison, parse_additive and
\* parse_multiplicative; p.ret is the left operand so far.
ComparisonOperators(p) ==
    IF ~Parsing(p) \/ current_token(p).type \notin ComparisonTokens THEN p
    ELSE Bind(parse_additive(advance(p)), LAMBDA p1 :
             ComparisonOperators(
                 Yield(p1, BinaryOp(p.ret, op_map[current_token(p).type], p1.ret))))

parse_comparison(p) == Bind(parse_additive(p), LAMBDA p1 : ComparisonOperators(p1))

parse_expression(p) == parse_comparison(p)

AdditiveOperators(p) ==
    IF ~Parsing(p) \/ current_token(p).type \notin AdditiveTokens THEN p
    ELSE Bind(parse_multiplicative(advance(p)), LAMBDA p1 :
             AdditiveOperators(
                 Yield(p1, BinaryOp(p.ret, op_map[current_token(p).type], p1.ret))))

\* parse_additive, were it to parse all that follows an operator as the
\* operator's right operand.
parse_additive_right(p) ==
    Bind(parse_multiplicative(p), LAMBDA p1 :
        IF Parsing(p1) /\ current_token(p1).type \in AdditiveTokens
        THEN Bind(parse_additive(advance(p1)), LAMBDA p2 :
                 Yield(p2, BinaryOp(p1.ret, op_map[current_token(p1).type], p2.ret)))
        ELSE p1)

parse_additive(p) == Bind(parse_multiplicative(p), LAMBDA p1 : AdditiveOperators(p1))

MultiplicativeOperators(p) ==
    IF ~Parsing(p) \/ current_token(p).type \notin MultiplicativeTokens THEN p
    ELSE Bind(parse_relation(advance(p)), LAMBDA p1 :
             MultiplicativeOperators(
                 Yield(p1, BinaryOp(p.ret, op_map[current_token(p).type], p1.ret))))

parse_multiplicative(p) == Bind(parse_relation(p), LAMBDA p1 : MultiplicativeOperators(p1))

\* parse_relation, were the right operand of `of` a whole additive expression.
parse_relation_loose(p) ==
    Bind(parse_primary(p), LAMBDA p1 :
        IF Parsing(p1) /\ current_token(p1).type = "OF"
        THEN Bind(parse_additive(advance(p1)), LAMBDA p2 : Yield(p2, Relation(p1.ret, p2.ret)))
        ELSE p1)

\* parse_relation, were it the loop of the other binary operators: each
\* `of` takes the relation so far as its left operand.
RelationOperators(p) ==
    IF ~Parsing(p) \/ current_token(p).type # "OF" THEN p
    ELSE Bind(parse_primary(advance(p)), LAMBDA p1 :
             RelationOperators(Yield(p1, Relation(p.ret, p1.ret))))

parse_relation_left(p) == Bind(parse_primary(p), LAMBDA p1 : RelationOperators(p1))

parse_relation(p) ==
    Bind(parse_primary(p), LAMBDA p1 :
        IF Parsing(p1) /\ current_token(p1).type = "OF"
        THEN Bind(parse_relation(advance(p1)), LAMBDA p2 : Yield(p2, Relation(p1.ret, p2.ret)))
        ELSE p1)

\* Vector giving a list literal node when an element is not a number literal.
Vector_list_literal(elements) ==
    IF \A i \in 1..Len(elements) :
           elements[i].type = "Literal" /\ elements[i].literal_type = "number"
    THEN Literal([i \in 1..Len(elements) |-> elements[i].value], "vector")
    ELSE ListLiteral(elements)

\* Literal(values, "vector") when every element is a number literal,
\* Literal(elements, "vector") otherwise.
Vector(elements) ==
    IF \A i \in 1..Len(elements) :
           elements[i].type = "Literal" /\ elements[i].literal_type = "number"
    THEN Literal([i \in 1..Len(elements) |-> elements[i].value], "vector")
    ELSE Literal(elements, "vector")

\* while self.current_token() and self.current_token().type != RPAREN
ParenElements(p, elements) ==
    IF ~Parsing(p) THEN p
    ELSE IF current_token(p).type \in {"None", "RPAREN"} THEN Yield(p, elements)
    ELSE Bind(parse_expression(p), LAMBDA p1 :
             IF ~Parsing(p1) THEN p1
             ELSE IF current_token(p1).type = "COMMA"
             THEN ParenElements(advance(p1), Append(elements, p1.ret))
             ELSE IF current_token(p1).type \notin {"None", "RPAREN"}
             THEN Yield(p1, Append(elements, p1.ret))
             ELSE ParenElements(p1, Append(elements, p1.ret)))

\* while self.current_token() and self.current_token().type != RBRACKET
BracketElements(p, elements) ==
    IF ~Parsing(p) THEN p
    ELSE IF current_token(p).type \in {"None", "RBRACKET"} THEN Yield(p, elements)
    ELSE Bind(parse_expression(p), LAMBDA p1 :
             BracketElements(Optional(p1, "COMMA"), Append(elements, p1.ret)))

\* parse_primary in which one element in parentheses is a vector of one.
parse_primary_vector_of_one(p) ==
    LET token == current_token(p)
    IN IF ~Parsing(p) THEN p
       ELSE IF token.type = "None" THEN SyntaxError(p, "")
       ELSE IF token.type \in DOMAIN interrogative_map THEN parse_interrogative(p)
       ELSE IF token.type \in {"NUMBER", "STRING", "NULL", "IDENTIFIER"}
       THEN Yield(advance(p), Atom(token))
       ELSE IF token.type = "LPAREN"
       THEN Bind(ParenElements(advance(p), <<>>), LAMBDA p1 :
                Yield(expect(p1, "RPAREN"),
                      IF Len(p1.ret) >= 1 THEN Vector(p1.ret)
                      ELSE Literal(<<>>, "vector")))
       ELSE IF token.type = "LBRACKET"
       THEN Bind(BracketElements(advance(p), <<>>), LAMBDA p1 :
                Yield(expect(p1, "RBRACKET"), Vector(p1.ret)))
       ELSE SyntaxError(p, "")

parse_primary(p) ==
    LET token == current_token(p)
    IN IF ~Parsing(p) THEN p
       ELSE IF token.type = "None" THEN SyntaxError(p, "")
       ELSE IF token.type \in DOMAIN interrogative_map THEN parse_interrogative(p)
       ELSE IF token.type \in {"NUMBER", "STRING", "NULL", "IDENTIFIER"}
       THEN Yield(advance(p), Atom(token))
       ELSE IF token.type = "LPAREN"
       THEN Bind(ParenElements(advance(p), <<>>), LAMBDA p1 :
                Yield(expect(p1, "RPAREN"),
                      IF Len(p1.ret) > 1 THEN Vector(p1.ret)
                      ELSE IF Len(p1.ret) = 1 THEN p1.ret[1]
                      ELSE Literal(<<>>, "vector")))
       ELSE IF token.type = "LBRACKET"
       THEN Bind(BracketElements(advance(p), <<>>), LAMBDA p1 :
                Yield(expect(p1, "RBRACKET"), Vector(p1.ret)))
       ELSE SyntaxError(p, "")

(***************************************************************************)
(* The evaluator (evaluator/interpreter.py) and the vectors it computes on *)
(* (semantic/lrvm.py).  Coordinates are integers.                          *)
(***************************************************************************)
\* The dimension of the vector space (768 unless the caller says otherwise).
Dimension == 2

LRVMVector(coordinates) == [coords |-> coordinates]

\* No vector: None where the code holds a vector or None.
NoVector == LRVMVector(<<>>)

zero_vector == LRVMVector([i \in 1..Dimension |-> 0])

\* The value goes in the first coordinate, the others are zero.
embed_scalar(value) == LRVMVector([i \in 1..Dimension |-> IF i = 1 THEN value ELSE 0])

\* What a call returned, or the exception it raised.
Returned(value) == [status |-> "returned", value |-> value, error |-> NoError]

Raised(type, arg) == [status |-> "raised", value |-> NoVector, error |-> Exception(type, arg)]

NotCalled == [status |-> "none", value |-> NoVector, error |-> NoError]

\* Environment.__init__: no binding; parent is the place of the parent
\* among the environments created so far, 0 for None.
Environment(parent) == [bindings |-> <<>>, parent |-> parent]

\* Environment.bind on environment e.
bind(envs, e, name, value) == [envs EXCEPT ![e].bindings = (name :> value) @@ @]

RECURSIVE lookup(_, _, _)
RECURSIVE lookup_one_level(_, _, _)

\* Environment.lookup, were it to ask the parent's own bindings only.
lookup_one_level(envs, e, name) ==
    IF name \in DOMAIN envs[e].bindings THEN Returned(envs[e].bindings[name])
    ELSE IF envs[e].parent # 0 /\ name \in DOMAIN envs[envs[e].parent].bindings
    THEN Returned(envs[envs[e].parent].bindings[name])
    ELSE Raised("NameError", name)

\* Environment.lookup on environment e.
lookup(envs, e, name) ==
    IF name \in DOMAIN envs[e].bindings THEN Returned(envs[e].bindings[name])
    ELSE IF envs[e].parent # 0 THEN lookup(envs, envs[e].parent, name)
    ELSE Raised("NameError", name)

\* LRVMVector.add, subtract and scale.
add(a, b) == LRVMVector([i \in 1..Len(a.coords) |-> a.coords[i] + b.coords[i]])

subtract(a, b) == LRVMVector([i \in 1..Len(a.coords) |-> a.coords[i] - b.coords[i]])

scale(a, scalar) == LRVMVector([i \in 1..Len(a.coords) |-> scalar * a.coords[i]])

\* self.metric.distance(result, previous) < convergence_threshold, for the
\* Euclidean metric the interpreter is built with: on integer coordinates
\* the distance is below 1e-6 when the vectors are equal.
within_threshold(a, b) ==
    /\ Len(a.coords) = Len(b.coords)
    /\ \A i \in 1..Len(a.coords) : a.coords[i] = b.coords[i]

\* max_iterations = None
NoLimit == -1

\* Where an evaluation stands: the environments, the value of the last
\* node, the exception on its way up (a ReturnValue carries the value), and
\* what the loop did: the outcome of each test of its condition, the value
\* of each run of its body, and how it was left.  self.environment and
\* self.recursion_depth, which a call changes, are threaded with them, and
\* the trace holds both as they were when a call began and when it ended.
Frame(envs) ==
    [envs |-> envs, status |-> "ok", value |-> zero_vector, error |-> NoError, trace |-> <<>>,
     environment |-> 1, recursion_depth |-> 0]

Running(s) == s.status = "ok"

Value(s, v) == [s EXCEPT !.value = v]

Throw(s, type, arg) == [s EXCEPT !.status = "raised", !.error = Exception(type, arg)]

Log(s, event, v) == [s EXCEPT !.trace = Append(@, [event |-> event, value |-> v])]

RECURSIVE evaluate(_, _, _)
RECURSIVE _eval_block(_, _, _, _)
RECURSIVE _call_function_with_value(_, _, _, _)
RECURSIVE _call_function_with_value_unwinding_late(_, _, _, _)
RECURSIVE _eval_loop(_, _, _, _, _, _)
RECURSIVE _eval_loop_condition_only(_, _, _, _, _, _)

_eval_literal(n, s) ==
    CASE n.literal_type = "number" -> Value(s, embed_scalar(n.value))
      [] n.literal_type = "null" -> Value(s, zero_vector)
      [] n.literal_type = "vector" -> Value(s, LRVMVector(n.value))

_eval_identifier(n, s, self) ==
    LET found == lookup(s.envs, s.environment, n.name)
    IN IF found.status = "returned" THEN Value(s, found.value)
       ELSE Throw(s, found.error.type, found.error.arg)

_eval_assignment(n, s, self) ==
    Bind(evaluate(n.expression, s, self), LAMBDA s1 :
        IF ~Running(s1) THEN s1
        ELSE [s1 EXCEPT !.envs = bind(s1.envs, s1.environment, n.identifier, s1.value)])

\* The operators +, -, * and the comparisons < and >; / and = are left out.
_eval_binary_op(n, s, self) ==
    Bind(evaluate(n.left, s, self), LAMBDA l :
    Bind(evaluate(n.right, l, self), LAMBDA r :
        IF ~Running(r) THEN r
        ELSE IF n.operator \in {"+", "-"} /\ Len(l.value.coords) # Len(r.value.coords)
        THEN Throw(r, "ValueError", "Dimension mismatch")
        ELSE CASE n.operator = "+" -> Value(r, add(l.value, r.value))
               [] n.operator = "-" -> Value(r, subtract(l.value, r.value))
               [] n.operator = "*" -> Value(r, scale(l.value, r.value.coords[1]))
               [] n.operator = "<" ->
                    Value(r, embed_scalar(IF l.value.coords[1] < r.value.coords[1] THEN 1 ELSE 0))
               [] n.operator = ">" ->
                    Value(r, embed_scalar(IF l.value.coords[1] > r.value.coords[1] THEN 1 ELSE 0))))

_eval_conditional(n, s, self) ==
    Bind(evaluate(n.condition, s, self), LAMBDA c :
        IF ~Running(c) THEN c
        ELSE IF c.value.coords[1] # 0 THEN _eval_block(n.if_block, 1, Value(c, zero_vector), self)
        ELSE IF Len(n.else_block) > 0 THEN _eval_block(n.else_block, 1, Value(c, zero_vector), self)
        ELSE Value(c, zero_vector))

_eval_return(n, s, self) ==
    Bind(evaluate(n.expression, s, self), LAMBDA s1 :
        IF ~Running(s1) THEN s1 ELSE Throw(s1, "ReturnValue", ""))

\* _eval_loop without the test for convergence.
_eval_loop_condition_only(n, s, self, result, previous, iterations) ==
    IF self.max_iterations # NoLimit /\ iterations >= self.max_iterations
    THEN Value(Log(s, "limit", NoVector), result)
    ELSE Bind(evaluate(n.condition, s, self), LAMBDA c :
        IF ~Running(c) THEN c
        ELSE IF c.value.coords[1] = 0 THEN Value(Log(c, "false", c.value), result)
        ELSE Bind(_eval_block(n.body, 1, Value(Log(c, "true", c.value), zero_vector), self),
                  LAMBDA b :
            IF ~Running(b) THEN b
            ELSE _eval_loop_condition_only(n, Log(b, "body", b.value), self, b.value, b.value,
                                           iterations + 1)))

\* One turn of `while True` in _eval_loop, and the turns after it.
_eval_loop(n, s, self, result, previous, iterations) ==
    IF self.max_iterations # NoLimit /\ iterations >= self.max_iterations
    THEN Value(Log(s, "limit", NoVector), result)
    ELSE Bind(evaluate(n.condition, s, self), LAMBDA c :
        IF ~Running(c) THEN c
        ELSE IF c.value.coords[1] = 0 THEN Value(Log(c, "false", c.value), result)
        ELSE Bind(_eval_block(n.body, 1, Value(Log(c, "true", c.value), zero_vector), self),
                  LAMBDA b :
            IF ~Running(b) THEN b
            ELSE IF previous # NoVector /\ within_threshold(b.value, previous)
            THEN Log(Log(b, "body", b.value), "converged", NoVector)
            ELSE _eval_loop(n, Log(b, "body", b.value), self, b.value, b.value,
                            iterations + 1)))

\* The statements of a block from the i-th on; s holds the value so far.
_eval_block(statements, i, s, self) ==
    IF i > Len(statements) THEN s
    ELSE Bind(evaluate(statements[i], s, self), LAMBDA s1 :
             IF Running(s1) THEN _eval_block(statements, i + 1, s1, self) ELSE s1)

\* The Function dataclass; closure is the place of the environment the
\* definition was evaluated in.
FunctionObject(name, parameters, body, closure) ==
    [name |-> name, parameters |-> parameters, body |-> body, closure |-> closure]

IsFunction(v) == "closure" \in DOMAIN v

\* LRVMSpace.embed_string: every coordinate is computed from hash(text),
\* which differs from run to run; it is kept as the text it is a hash of.
embed_string(text) == LRVMVector([i \in 1..Dimension |-> [hash |-> text]])

\* self.recursion_depth and self.environment
Place(s) == [recursion_depth |-> s.recursion_depth, environment |-> s.environment]

\* The calls begun so far in the evaluation of the statement.
CallsBegun(s) == Cardinality({i \in 1..Len(s.trace) : s.trace[i].event = "call"})

\* _call_function_with_value, lines 530-576: what the three criteria on the
\* tracker's framework strength and trajectory decide for this call.
\* FrameworkStrengthTracker is not part of the sources: self.fs_tracker is
\* the set of the calls, counted as they begin, it reports convergence for.
converged(s, self) ==
    /\ self.enable_convergence_detection
    /\ s.recursion_depth > 2
    /\ CallsBegun(s) \in self.fs_tracker

_eval_function_def(n, s, self) ==
    LET func == FunctionObject(n.name, IF Len(n.parameters) > 0 THEN n.parameters ELSE <<"n">>,
                               n.body, s.environment)
    IN Value([s EXCEPT !.envs = bind(s.envs, s.environment, n.name, func)],
             embed_string(<<"function", n.name>>))

\* _call_function_with_value, were the recursion depth and the environment
\* put back after a normal completion and a Return only.
_call_function_with_value_unwinding_late(func, arg_value, s, self) ==
    LET entered == Log([s EXCEPT !.recursion_depth = @ + 1], "call", Place(s))
        Left(out) == Log(out, "exit", Place(out))
    IN IF entered.recursion_depth > self.max_recursion_depth
       THEN Left(Throw([entered EXCEPT !.recursion_depth = @ - 1], "RuntimeError",
                       "Maximum recursion depth exceeded"))
       ELSE IF converged(entered, self)
       THEN Bind([entered EXCEPT !.recursion_depth = @ - 1], LAMBDA out :
                Left(Value(out, embed_string(<<"eigenstate", out.recursion_depth>>))))
       ELSE LET func_env == Len(entered.envs) + 1
                param_name == IF Len(func.parameters) > 0 THEN func.parameters[1] ELSE "n"
                saved_env == entered.environment
                inside == [entered EXCEPT
                             !.envs = bind(Append(@, Environment(func.closure)), func_env,
                                           param_name, arg_value),
                             !.environment = func_env]
            IN Bind(_eval_block(func.body, 1, Value(inside, zero_vector), self), LAMBDA b :
                   LET restored == [b EXCEPT !.environment = saved_env, !.recursion_depth = @ - 1]
                   IN IF Running(b) THEN Left(restored)
                      ELSE IF b.error.type = "ReturnValue"
                      THEN Left([restored EXCEPT !.status = "ok", !.error = NoError])
                      ELSE Left(b))

\* _call_function_with_value: the depth is counted and checked, the tracker
\* is asked from depth 3 on, and the body runs in a new environment whose
\* parent is the closure; `finally` puts the environment and the depth back.
_call_function_with_value(func, arg_value, s, self) ==
    LET entered == Log([s EXCEPT !.recursion_depth = @ + 1], "call", Place(s))
        Left(out) == Log(out, "exit", Place(out))
    IN IF entered.recursion_depth > self.max_recursion_depth
       THEN Left(Throw([entered EXCEPT !.recursion_depth = @ - 1], "RuntimeError",
                       "Maximum recursion depth exceeded"))
       ELSE IF converged(entered, self)
       THEN Bind([entered EXCEPT !.recursion_depth = @ - 1], LAMBDA out :
                Left(Value(out, embed_string(<<"eigenstate", out.recursion_depth>>))))
       ELSE LET func_env == Len(entered.envs) + 1
                param_name == IF Len(func.parameters) > 0 THEN func.parameters[1] ELSE "n"
                saved_env == entered.environment
                inside == [entered EXCEPT
                             !.envs = bind(Append(@, Environment(func.closure)), func_env,
                                           param_name, arg_value),
                             !.environment = func_env]
            IN Bind(_eval_block(func.body, 1, Value(inside, zero_vector), self), LAMBDA b :
                   LET finally == [b EXCEPT !.environment = saved_env, !.recursion_depth = @ - 1]
                   IN IF ~Running(b) /\ b.error.type = "ReturnValue"
                      THEN Left([finally EXCEPT !.status = "ok", !.error = NoError])
                      ELSE Left(finally))

\* _call_function: the argument is evaluated, then the function is called.
_call_function(func, arg_node, s, self) ==
    Bind(evaluate(arg_node, s, self), LAMBDA a :
        IF ~Running(a) THEN a ELSE _call_function_with_value(func, a.value, a, self))

\* _eval_relation: a call when the left side names, or evaluates to, a
\* function.  The contraction of two vectors by the metric is left out.
_eval_relation(n, s, self) ==
    LET found == IF n.left.type = "Identifier" THEN lookup(s.envs, s.environment, n.left.name)
                 ELSE NotCalled
    IN IF found.status = "returned" /\ IsFunction(found.value)
       THEN _call_function(found.value, n.right, s, self)
       ELSE Bind(evaluate(n.left, s, self), LAMBDA l :
            Bind(evaluate(n.right, l, self), LAMBDA r :
                IF ~Running(r) THEN r
                ELSE CASE IsFunction(l.value) ->
                            _call_function_with_value(l.value, r.value, r, self)))

\* Interpreter.evaluate
evaluate(n, s, self) ==
    IF ~Running(s) THEN s
    ELSE CASE n.type = "Assignment" -> _eval_assignment(n, s, self)
           [] n.type = "Relation" -> _eval_relation(n, s, self)
           [] n.type = "FunctionDef" -> _eval_function_def(n, s, self)
           [] n.type = "BinaryOp" -> _eval_binary_op(n, s, self)
           [] n.type = "Conditional" -> _eval_conditional(n, s, self)
           [] n.type = "Loop" -> _eval_loop(n, s, self, zero_vector, NoVector, 0)
           [] n.type = "Return" -> _eval_return(n, s, self)
           [] n.type = "Literal" -> _eval_literal(n, s)
           [] n.type = "Identifier" -> _eval_identifier(n, s, self)
           [] n.type \in {"Interrogative", "Break"} -> Throw(s, "RuntimeError", n.type)

\* Interpreter.__init__, and evaluate() on a Program about to evaluate its
\* statement number pc + 1.
Interpreter(max_iterations, program) ==
    [at |-> "running", environment |-> 1, max_iterations |-> max_iterations,
     program |-> program, pc |-> 0, result |-> zero_vector, trace |-> <<>>,
     recursion_depth |-> 0, max_recursion_depth |-> 1000,
     enable_convergence_detection |-> TRUE, fs_tracker |-> {}]

(***************************************************************************)
(* The lexer (lexer/tokenizer.py).  A source is the sequence of its        *)
(* characters; a token's line and column are left out.                     *)
(***************************************************************************)
\* Tokenizer.__init__
Tokenizer(source) ==
    [source |-> source, position |-> 0, line |-> 1, column |-> 1,
     tokens |-> <<>>, indent_stack |-> <<0>>]

\* Tokenizer.tokenize: an EOF token is appended to self.tokens, which is
\* what the call returns.
tokenize(t) == [t EXCEPT !.tokens = Append(@, Token("EOF", ""))]

\* No interpreter has been created.
NoInterpreter ==
    [at |-> "none", environment |-> 0, max_iterations |-> NoLimit, program |-> <<>>, pc |-> 0,
     result |-> NoVector, trace |-> <<>>, recursion_depth |-> 0, max_recursion_depth |-> 1000,
     enable_convergence_detection |-> TRUE, fs_tracker |-> {}]

\* No tokenizer has been created.
NoTokenizer == [source |-> <<>>, position |-> 0, line |-> 1, column |-> 1,
                tokens |-> <<>>, indent_stack |-> <<0>>]

(***************************************************************************)
(* compile(ast_nodes): the state machine.  One action creates main, one    *)
(* lowers the next statement of the program, one emits main's return.      *)
(***************************************************************************)
\* The code generator's fields as the record _generate threads.
Self ==
    [module |-> module, global_vars |-> global_vars, local_vars |-> local_vars,
     functions |-> functions, current_function |-> current_function, builder |-> builder,
     next_id |-> next_id, err |-> NoError, ret |-> PyNone, r |-> NoValue, terminated |-> FALSE]

\* The fields after a call that left the generator in state s; compile() goes
\* on to phase then unless the call raised.
Becomes(s, then) ==
    /\ module' = s.module
    /\ global_vars' = s.global_vars
    /\ local_vars' = s.local_vars
    /\ functions' = s.functions
    /\ current_function' = s.current_function
    /\ builder' = s.builder
    /\ next_id' = s.next_id
    /\ error' = s.err
    /\ phase' = IF Ok(s) THEN then ELSE "failed"

\* LLVMCodeGenerator.__init__
InitCodegen ==
    /\ module = <<>>
    /\ global_vars = <<>>
    /\ local_vars = <<>>
    /\ functions = <<>>
    /\ current_function = 0
    /\ builder = [fn |-> 0, block |-> 0]
    /\ next_id = 1
    /\ phase = "new"
    /\ error = NoError
    /\ node = NoNode
    /\ lowered = 0

\* Parser.__init__ has not run.
InitNoParser ==
    /\ tokens = <<>>
    /\ position = 0
    /\ parsed = [status |-> "idle", statements |-> <<>>, error |-> NoSyntaxError]

\* No Environment and no Interpreter has been created.
InitNoEvaluator ==
    /\ environments = <<>>
    /\ interpreter = NoInterpreter
    /\ evaluated = NotCalled

\* No Tokenizer has been created.
InitNoLexer ==
    /\ tokenizer = NoTokenizer
    /\ lexed = [status |-> "none", calls |-> 0, returned |-> <<>>]

\* compile(), lines 281-286: main, its entry block, the builder on it.
CompileBegin ==
    /\ phase = "new"
    /\ module' = <<[name |-> "main", blocks |-> <<BasicBlock("entry")>>]>>
    /\ builder' = [fn |-> 1, block |-> 1]
    /\ current_function' = 1
    /\ phase' = "lowering"
    /\ UNCHANGED <<global_vars, local_vars, functions, next_id, error, node, lowered, parserVars, evaluatorVars, lexerVars>>

\* compile(), lines 289-290: one iteration of the loop over ast_nodes.
CompileStatement(n) ==
    /\ phase = "lowering"
    /\ Becomes(_generate(n, Self), "lowering")
    /\ node' = n
    /\ lowered' = lowered + 1
    /\ UNCHANGED <<parserVars, evaluatorVars, lexerVars>>

\* str(module) reads the type of every operand of every instruction.
Printable(mod) ==
    \A f \in 1..Len(mod) : \A b \in 1..Len(mod[f].blocks) :
        \A i \in 1..Len(mod[f].blocks[b].instrs) :
            \A a \in 1..Len(mod[f].blocks[b].instrs[i].args) :
                mod[f].blocks[b].instrs[i].args[a].k \in {"const", "inst", "arg", "global"}

\* compile(), lines 293-295: return 0 from main, then print the module.
CompileEnd ==
    /\ phase = "lowering"
    /\ LET s1 == ret(Self, Constant("i32", 0))
           s2 == IF Ok(s1) /\ ~Printable(s1.module) THEN Raise(s1, "AttributeError", "type") ELSE s1
       IN Becomes(s2, "done")
    /\ UNCHANGED <<node, lowered, parserVars, evaluatorVars, lexerVars>>

(***************************************************************************)
(* The programs of the specification Spec: assignments and expression      *)
(* statements at the top level of the program, over two scalar variables   *)
(* x and y, a list variable l and a name that is never bound.              *)
(***************************************************************************)
Undefined == "undefined_name"

Targets == {"x", "y"}

What(name) == Interrogative("what", Identifier(name))

Number(v) == Literal(v, "number")

\* Right-hand sides that produce a scalar, and those that produce a reference.
ScalarExpressions ==
    {Number(1), Number(2), BinaryOp(Identifier("x"), "+", Number(0)),
     Interrogative("why", Identifier("x"))}

ReferenceExpressions == {What("x"), What("y")}

AssignedExpressions == ScalarExpressions \cup ReferenceExpressions \cup {Identifier(Undefined)}

ListAssignment == Assignment("l", ListLiteral(<<Identifier("x")>>))

Assignments == {Assignment(t, e) : t \in Targets, e \in AssignedExpressions} \cup {ListAssignment}

\* Binary operations on a tracked variable, a reference, a number, a list
\* variable and a list literal.
BinaryOperations ==
    {BinaryOp(What("x"), "*", Identifier("y")),
     BinaryOp(Identifier("x"), "<", Number(1)),
     BinaryOp(Identifier("l"), "+", Identifier("l")),
     BinaryOp(Identifier("l"), "+", Number(1)),
     BinaryOp(Identifier("x"), "<", Identifier("l")),
     BinaryOp(ListLiteral(<<Identifier("x")>>), ">", Number(1))}

Expressions ==
    BinaryOperations \cup
    {Identifier("converged"), What(Undefined),
     Relation(Identifier("print"), Identifier(Undefined))}

\* Programs of at most MaxStmts statements.
LowerAssignment == lowered < MaxStmts /\ \E n \in Assignments : CompileStatement(n)

LowerExpression == lowered < MaxStmts /\ \E n \in Expressions : CompileStatement(n)

Next == CompileBegin \/ LowerAssignment \/ LowerExpression \/ CompileEnd

Init == InitCodegen /\ InitNoParser /\ InitNoEvaluator /\ InitNoLexer

Spec == Init /\ [][Next]_vars

(***************************************************************************)
(* The programs of the specification SpecControl: conditionals and         *)
(* function definitions whose branches and bodies return, or do not, at    *)
(* each place of their statement lists, and the assignment that binds n at *)
(* the top level.                                                          *)
(***************************************************************************)
MaxControl == 2

BindN == Assignment("n", Number(1))

UpdateN == Assignment("n", Number(2))

\* Statement lists with no Return, ending in one, and going on after one.
Blocks ==
    {<<UpdateN>>,
     <<Return(Identifier("n"))>>,
     <<UpdateN, Return(NoNode)>>,
     <<Return(Number(1)), UpdateN, Return(Number(2))>>}

Condition == BinaryOp(Identifier("n"), "<", Number(1))

Conditionals == {Conditional(Condition, b, e) : b \in Blocks, e \in Blocks \cup {<<>>}}

FunctionNames == {"f", "g"}

Bodies ==
    Blocks \cup
    {<<Conditional(Condition, <<Return(Number(1))>>, <<Return(Number(2))>>)>>,
     <<Conditional(Condition, <<Return(Number(1))>>, <<>>), UpdateN>>}

FunctionDefs == {FunctionDef(f, <<>>, b) : f \in FunctionNames, b \in Bodies}

LowerBinding == lowered < MaxControl /\ CompileStatement(BindN)

LowerConditional == lowered < MaxControl /\ \E n \in Conditionals : CompileStatement(n)

LowerFunctionDef == lowered < MaxControl /\ \E n \in FunctionDefs : CompileStatement(n)

NextControl == CompileBegin \/ LowerBinding \/ LowerConditional \/ LowerFunctionDef \/ CompileEnd

SpecControl == Init /\ [][NextControl]_vars

(***************************************************************************)
(* Parser.parse(): the state machine of the specification SpecParser.  One *)
(* action per iteration of the loop over the top-level statements, one for *)
(* the return of the Program.  The token lists are expressions of up to    *)
(* MaxOperators binary operators, and statements that are cut short or     *)
(* lack one token.                                                         *)
(***************************************************************************)
MaxOperators == 3

Keyword(type) == Token(type, "")

EndOfFile == Keyword("EOF")

OperandNames == <<"a", "b", "c", "d", "e", "f", "g", "h">>

OperandKinds == {"IDENTIFIER", "NUMBER"}

OperandToken(kind, i) ==
    IF kind = "NUMBER" THEN Token("NUMBER", i) ELSE Token("IDENTIFIER", OperandNames[i])

OperatorTokens == ComparisonTokens \cup AdditiveTokens \cup MultiplicativeTokens \cup {"OF"}

\* operand operator operand ... operand EOF
ExpressionTokens(kind, operators) ==
    [i \in 1..(2 * Len(operators) + 2) |->
        IF i = 2 * Len(operators) + 2 THEN EndOfFile
        ELSE IF i % 2 = 1 THEN OperandToken(kind, (i + 1) \div 2)
        ELSE Keyword(operators[i \div 2])]

OperatorLists == UNION {[1..k -> OperatorTokens] : k \in 1..MaxOperators}

ExpressionStreams == {ExpressionTokens(kind, ops) : kind \in OperandKinds, ops \in OperatorLists}

\* Statements as a tokenizer would hand them over.
WellFormed ==
    {<<Keyword("NEWLINE"), Token("IDENTIFIER", "x"), Keyword("IS"), Keyword("LPAREN"),
       Token("NUMBER", 1), Keyword("PLUS"), Token("IDENTIFIER", "y"), Keyword("RPAREN"),
       Keyword("NEWLINE"), EndOfFile>>,
     <<Keyword("IF"), Token("IDENTIFIER", "x"), Keyword("LESS_THAN"), Token("NUMBER", 1),
       Keyword("COLON"), Keyword("NEWLINE"), Keyword("INDENT"),
       Token("IDENTIFIER", "y"), Keyword("IS"), Token("NUMBER", 1), Keyword("NEWLINE"),
       Keyword("DEDENT"), Keyword("ELSE"), Keyword("COLON"), Keyword("NEWLINE"),
       Keyword("INDENT"), Keyword("RETURN"), Token("IDENTIFIER", "y"), Keyword("NEWLINE"),
       Keyword("DEDENT"), EndOfFile>>,
     <<Keyword("DEFINE"), Token("IDENTIFIER", "f"), Keyword("AS"), Keyword("COLON"),
       Keyword("NEWLINE"), Keyword("INDENT"), Keyword("RETURN"), Keyword("LBRACKET"),
       Token("NUMBER", 1), Keyword("COMMA"), Token("NUMBER", 2), Keyword("RBRACKET"),
       Keyword("NEWLINE"), Keyword("DEDENT"), EndOfFile>>,
     <<Keyword("LOOP"), Keyword("WHILE"), Token("IDENTIFIER", "x"), Keyword("COLON"),
       Keyword("NEWLINE"), Keyword("INDENT"), Keyword("BREAK"), Keyword("NEWLINE"),
       Keyword("DEDENT"), EndOfFile>>,
     <<Token("IDENTIFIER", "y"), Keyword("IS"), Keyword("WHAT"), Keyword("IS"),
       Token("IDENTIFIER", "x"), Keyword("NEWLINE"),
       Token("IDENTIFIER", "print"), Keyword("OF"), Token("IDENTIFIER", "y"),
       Keyword("NEWLINE"), EndOfFile>>}

\* The first i tokens of w, then the end of the file.
Truncate(w, i) == Append(SubSeq(w, 1, i), EndOfFile)

\* w without its token number i.
Delete(w, i) == SubSeq(w, 1, i - 1) \o SubSeq(w, i + 1, Len(w))

StatementStreams ==
    UNION {{Truncate(w, i) : i \in 0..(Len(w) - 1)} \cup {Delete(w, i) : i \in 1..(Len(w) - 1)} :
           w \in WellFormed}

MaxElements == 3

\* The elements of a group: two numbers, a name, a sum and a string.
Elements ==
    {<<Token("NUMBER", 1)>>, <<Token("NUMBER", 2)>>, <<Token("IDENTIFIER", "a")>>,
     <<Token("IDENTIFIER", "a"), Keyword("PLUS"), Token("NUMBER", 1)>>,
     <<Token("STRING", "s")>>}

ElementLists == UNION {[1..n -> Elements] : n \in 0..MaxElements}

\* A group is its elements, and whether a comma follows the last.
Groups ==
    {g \in [elements : ElementLists, trailing : BOOLEAN] : g.trailing => g.elements # <<>>}

RECURSIVE JoinElements(_, _)

\* The tokens of the elements from the i-th on, with a comma between two.
JoinElements(elements, i) ==
    IF i > Len(elements) THEN <<>>
    ELSE elements[i] \o
         (IF i < Len(elements) THEN <<Keyword("COMMA")>> \o JoinElements(elements, i + 1)
          ELSE <<>>)

\* x is ( e1 , e2 ... ) EOF, or the same in brackets.
GroupTokens(open, g, close) ==
    <<Token("IDENTIFIER", "x"), Keyword("IS"), Keyword(open)>> \o JoinElements(g.elements, 1)
      \o (IF g.trailing THEN <<Keyword("COMMA")>> ELSE <<>>) \o <<Keyword(close), EndOfFile>>

ParenStreams == {GroupTokens("LPAREN", g, "RPAREN") : g \in Groups}

BracketStreams == {GroupTokens("LBRACKET", g, "RBRACKET") : g \in Groups}

\* What may follow an interrogative keyword and its optional IS.
InterrogativeOperands ==
    {<<Token("IDENTIFIER", "a")>>, <<Token("NUMBER", 1)>>, <<Token("STRING", "s")>>,
     <<Keyword("NULL")>>, <<>>,
     <<Keyword("LPAREN"), Token("IDENTIFIER", "a"), Keyword("RPAREN")>>,
     <<Keyword("LPAREN"), Token("IDENTIFIER", "a"), Keyword("PLUS"), Token("NUMBER", 1),
       Keyword("RPAREN")>>,
     <<Keyword("LPAREN"), Token("IDENTIFIER", "f"), Keyword("OF"), Token("IDENTIFIER", "a"),
       Keyword("RPAREN")>>,
     <<Keyword("LPAREN"), Keyword("WHAT"), Token("IDENTIFIER", "a"), Keyword("RPAREN")>>,
     <<Token("IDENTIFIER", "a"), Keyword("PLUS"), Token("NUMBER", 1)>>,
     <<Token("IDENTIFIER", "f"), Keyword("OF"), Token("IDENTIFIER", "a")>>,
     <<Keyword("WHAT"), Token("IDENTIFIER", "a")>>,
     <<Keyword("LBRACKET"), Token("IDENTIFIER", "a"), Keyword("RBRACKET")>>}

\* y is what [is] operand EOF
InterrogativeTokens(keyword, is, operand) ==
    <<Token("IDENTIFIER", "y"), Keyword("IS"), Keyword(keyword)>>
      \o (IF is THEN <<Keyword("IS")>> ELSE <<>>) \o operand \o <<EndOfFile>>

InterrogativeStreams ==
    {InterrogativeTokens(keyword, is, operand) :
        keyword \in DOMAIN interrogative_map, is \in BOOLEAN, operand \in InterrogativeOperands}

TokenStreams ==
    ExpressionStreams \cup StatementStreams \cup ParenStreams \cup BracketStreams
      \cup InterrogativeStreams

\* The parser as parse() finds it at the top of its loop.
ParserSelf == [tokens |-> tokens, position |-> position, err |-> NoSyntaxError, ret |-> NoNode]

\* Parser.__init__, and the first line of parse().
InitParser ==
    /\ tokens \in TokenStreams
    /\ position = 0
    /\ parsed = [status |-> "parsing", statements |-> <<>>, error |-> NoSyntaxError]

\* parse(), lines 302-304: a newline between statements is skipped.
ParseNewline ==
    /\ parsed.status = "parsing"
    /\ current_token(ParserSelf).type = "NEWLINE"
    /\ position' = advance(ParserSelf).position
    /\ UNCHANGED <<tokens, parsed, codegenVars, evaluatorVars, lexerVars>>

\* parse(), lines 306-308: one statement.  An exception ends parse() and
\* the statements collected so far are gone with its frame.
ParseStatement ==
    /\ parsed.status = "parsing"
    /\ current_token(ParserSelf).type \notin {"None", "EOF", "NEWLINE"}
    /\ \E p \in {parse_statement(ParserSelf)} :
          /\ position' = p.position
          /\ parsed' = IF Parsing(p)
                       THEN [parsed EXCEPT !.statements =
                                IF p.ret.type = "NoneType" THEN @ ELSE Append(@, p.ret)]
                       ELSE [status |-> p.err.type, statements |-> <<>>, error |-> p.err]
    /\ UNCHANGED <<tokens, codegenVars, evaluatorVars, lexerVars>>

\* parse(), lines 300 and 308: the loop ends and the Program is returned.
ParseReturn ==
    /\ parsed.status = "parsing"
    /\ current_token(ParserSelf).type \in {"None", "EOF"}
    /\ parsed' = [parsed EXCEPT !.status = "ok"]
    /\ UNCHANGED <<tokens, position, codegenVars, evaluatorVars, lexerVars>>

NextParser == ParseNewline \/ ParseStatement \/ ParseReturn

InitParsing == InitCodegen /\ InitParser /\ InitNoEvaluator /\ InitNoLexer

SpecParser == InitParsing /\ [][NextParser]_vars

(***************************************************************************)
(* The programs of the specification SpecCall: relations at the top level  *)
(* of the program, whose left side is print, a function that was defined,  *)
(* a name that never is, or not a name at all, and whose right side is a   *)
(* number, a variable, a reference, an operation, a list or an unbound     *)
(* name.                                                                   *)
(***************************************************************************)
MaxCall == 3

CallBindings == {Assignment("x", Number(1)), Assignment("l", ListLiteral(<<Number(1)>>))}

CallDefinitions == {FunctionDef("f", <<>>, <<Return(Identifier("n"))>>)}

Callees == {Identifier("print"), Identifier("f"), Identifier("g"), Number(1)}

Arguments ==
    {Number(5), Identifier("x"), What("x"), BinaryOp(Identifier("x"), "+", Number(0)),
     Identifier("l"), ListLiteral(<<Number(1)>>), Identifier(Undefined)}

Relations == {Relation(c, a) : c \in Callees, a \in Arguments}

LowerCallBinding == lowered < MaxCall /\ \E n \in CallBindings : CompileStatement(n)

LowerCallDefinition == lowered < MaxCall /\ \E n \in CallDefinitions : CompileStatement(n)

LowerRelation == lowered < MaxCall /\ \E n \in Relations : CompileStatement(n)

NextCall == CompileBegin \/ LowerCallBinding \/ LowerCallDefinition \/ LowerRelation \/ CompileEnd

SpecCall == Init /\ [][NextCall]_vars

(***************************************************************************)
(* The specification SpecEnvironment: environments are created, each with  *)
(* no parent or with one created before it, names are bound in them and    *)
(* looked up from them, in any order.                                      *)
(***************************************************************************)
MaxEnvironments == 3

BoundNames == {"x", "y"}

LookedUpNames == BoundNames \cup {Undefined}

BoundValues == [x |-> {embed_scalar(1), embed_scalar(2)}, y |-> {embed_scalar(1)}]

\* Environment(parent)
EnvironmentNew ==
    /\ Len(environments) < MaxEnvironments
    /\ \E parent \in 0..Len(environments) :
         environments' = Append(environments, Environment(parent))
    /\ UNCHANGED <<interpreter, evaluated, codegenVars, parserVars, lexerVars>>

\* env.bind(name, value)
EnvironmentBind ==
    /\ \E e \in 1..Len(environments) : \E name \in BoundNames : \E value \in BoundValues[name] :
         environments' = bind(environments, e, name, value)
    /\ UNCHANGED <<interpreter, evaluated, codegenVars, parserVars, lexerVars>>

\* env.lookup(name)
EnvironmentLookup ==
    /\ \E e \in 1..Len(environments) : \E name \in LookedUpNames :
         evaluated' = lookup(environments, e, name)
    /\ UNCHANGED <<environments, interpreter, codegenVars, parserVars, lexerVars>>

NextEnvironment == EnvironmentNew \/ EnvironmentBind \/ EnvironmentLookup

SpecEnvironment == Init /\ [][NextEnvironment]_vars

(***************************************************************************)
(* The specification SpecLexer: a tokenizer is created on a source of up   *)
(* to MaxLines lines, each indented by 0, 2 or 4 spaces, and tokenize() is *)
(* called on it up to MaxCalls times.                                      *)
(***************************************************************************)
MaxLines == 3

MaxCalls == 2

IndentWidths == {0, 2, 4}

\* The characters of a line of one name indented by width spaces.
SourceLine(width) == [i \in 1..width |-> " "] \o <<"x">>

RECURSIVE JoinLines(_, _)

\* The lines whose widths are given, from the i-th on, with a newline between two.
JoinLines(widths, i) ==
    IF i > Len(widths) THEN <<>>
    ELSE SourceLine(widths[i]) \o
         (IF i < Len(widths) THEN <<"\n">> \o JoinLines(widths, i + 1) ELSE <<>>)

Sources ==
    {JoinLines(widths, 1) : widths \in UNION {[1..n -> IndentWidths] : n \in 0..MaxLines}}

\* Tokenizer(source)
TokenizerNew ==
    /\ lexed.status = "none"
    /\ \E source \in Sources : tokenizer' = Tokenizer(source)
    /\ lexed' = [lexed EXCEPT !.status = "new"]
    /\ UNCHANGED <<codegenVars, parserVars, evaluatorVars>>

\* tokenizer.tokenize()
TokenizerTokenize ==
    /\ lexed.status # "none"
    /\ lexed.calls < MaxCalls
    /\ tokenizer' = tokenize(tokenizer)
    /\ lexed' = [status |-> "returned", calls |-> lexed.calls + 1, returned |-> tokenizer'.tokens]
    /\ UNCHANGED <<codegenVars, parserVars, evaluatorVars>>

NextLexer == TokenizerNew \/ TokenizerTokenize

SpecLexer == Init /\ [][NextLexer]_vars

(***************************************************************************)
(* The specification SpecInterpreter: an interpreter is created with a     *)
(* limit on loop iterations or none, and evaluate() is called on a program *)
(* with a loop, whose statements it evaluates one after the other.         *)
(***************************************************************************)
MaxN == 5

Plus(name, k) == Assignment(name, BinaryOp(Identifier(name), "+", Number(k)))

\* The iterative factorial of test_functions.py, for n in place of 5.
Factorial(n) ==
    <<Assignment("n", Number(n)), Assignment("result", Number(1)), Assignment("counter", Number(1)),
      Loop(BinaryOp(Identifier("counter"), "<", BinaryOp(Identifier("n"), "+", Number(1))),
           <<Assignment("result", BinaryOp(Identifier("result"), "*", Identifier("counter"))),
             Plus("counter", 1)>>)>>

\* A loop whose body ends with the same value every time.
Flagged ==
    <<Assignment("counter", Number(1)),
      Loop(BinaryOp(Identifier("counter"), "<", Number(4)),
           <<Plus("counter", 1), Assignment("flag", Number(0))>>),
      Assignment("after", Identifier("counter"))>>

\* A loop whose condition stays true.
Forever == <<Assignment("x", Number(0)), Loop(Number(1), <<Plus("x", 1)>>)>>

\* A loop that counts down, in steps a conditional chooses.
Countdown ==
    <<Assignment("x", Number(3)),
      Loop(BinaryOp(Identifier("x"), ">", Number(0)),
           <<Conditional(BinaryOp(Identifier("x"), ">", Number(2)),
                         <<Assignment("x", BinaryOp(Identifier("x"), "-", Number(2)))>>,
                         <<Assignment("x", BinaryOp(Identifier("x"), "-", Number(1)))>>)>>),
      Assignment("after", Literal(NoNode, "null"))>>

\* A return in the body of a loop, outside any function.
Returning == <<Loop(Number(1), <<Return(Number(5))>>)>>

\* A condition that reads a name bound by the second run of the body only.
Unbound ==
    <<Assignment("x", Number(0)),
      Loop(BinaryOp(Identifier("x"), "<", Number(2)), <<Plus("x", 1), Identifier("y")>>)>>

Limits == {NoLimit, 3, 100}

\* The programs, and the limits each is run under.
Runs ==
    [n \in 1..(MaxN + 1) |-> [program |-> Factorial(n - 1), limits |-> Limits]]
      \o <<[program |-> Flagged, limits |-> Limits],
           [program |-> Forever, limits |-> {3}],
           [program |-> Countdown, limits |-> Limits],
           [program |-> Returning, limits |-> Limits],
           [program |-> Unbound, limits |-> Limits]>>

\* Interpreter(max_iterations=...) and the first lines of evaluate(Program)
InterpreterNew ==
    /\ interpreter.at = "none"
    /\ \E i \in 1..Len(Runs) : \E limit \in Runs[i].limits :
          interpreter' = Interpreter(limit, Runs[i].program)
    /\ environments' = <<Environment(0)>>
    /\ UNCHANGED <<evaluated, codegenVars, parserVars, lexerVars>>

\* _eval_program: one statement is evaluated.  An exception ends evaluate().
EvalStatement ==
    /\ interpreter.at = "running"
    /\ interpreter.pc < Len(interpreter.program)
    /\ \E s \in {evaluate(interpreter.program[interpreter.pc + 1],
                          [Frame(environments) EXCEPT
                             !.environment = interpreter.environment,
                             !.recursion_depth = interpreter.recursion_depth],
                          interpreter)} :
          /\ environments' = s.envs
          /\ interpreter' =
               IF Running(s)
               THEN [interpreter EXCEPT !.pc = @ + 1, !.result = s.value, !.trace = s.trace,
                                        !.environment = s.environment,
                                        !.recursion_depth = s.recursion_depth]
               ELSE [interpreter EXCEPT !.at = "raised", !.trace = s.trace,
                                        !.environment = s.environment,
                                        !.recursion_depth = s.recursion_depth]
          /\ evaluated' = IF Running(s) THEN evaluated
                          ELSE [status |-> "raised", value |-> s.value, error |-> s.error]
    /\ UNCHANGED <<codegenVars, parserVars, lexerVars>>

\* _eval_program: no statement is left and the last value is returned.
EvalReturn ==
    /\ interpreter.at = "running"
    /\ interpreter.pc = Len(interpreter.program)
    /\ interpreter' = [interpreter EXCEPT !.at = "done"]
    /\ evaluated' = Returned(interpreter.result)
    /\ UNCHANGED <<environments, codegenVars, parserVars, lexerVars>>

NextInterpreter == InterpreterNew \/ EvalStatement \/ EvalReturn

SpecInterpreter == Init /\ [][NextInterpreter]_vars

(***************************************************************************)
(* The specification SpecAlias: programs of at most MaxAlias assignments   *)
(* of numbers and references to three names.                               *)
(***************************************************************************)
MaxAlias == 4

AliasTargets == {"x", "y", "z"}

Rebindings ==
    {Assignment("x", Number(1)), Assignment("x", Number(2)), Assignment("y", Number(2)),
     Assignment("x", What("y")), Assignment("y", What("x")),
     Assignment("z", What("x")), Assignment("z", What("y"))}

LowerRebinding == lowered < MaxAlias /\ \E n \in Rebindings : CompileStatement(n)

NextAlias == CompileBegin \/ LowerRebinding \/ CompileEnd

SpecAlias == Init /\ [][NextAlias]_vars

(***************************************************************************)
(* The specification SpecInterrogative: programs of at most MaxQuestions   *)
(* statements, each a binding of x or y or an interrogative statement.     *)
(***************************************************************************)
MaxQuestions == 3

QuestionNames == {"x", "y"}

QuestionKinds == {"what", "who", "when", "where", "why", "how"}

QuestionBindings ==
    {Assignment("x", Number(1)), Assignment("x", Number(2)), Assignment("y", What("x"))}

Questions ==
    {Interrogative(kind, Identifier(name)) : kind \in QuestionKinds, name \in QuestionNames}
      \cup {Interrogative("what", Number(1))}

LowerQuestionBinding ==
    lowered < MaxQuestions /\ \E n \in QuestionBindings : CompileStatement(n)

LowerQuestion == lowered < MaxQuestions /\ \E n \in Questions : CompileStatement(n)

NextInterrogative == CompileBegin \/ LowerQuestionBinding \/ LowerQuestion \/ CompileEnd

SpecInterrogative == Init /\ [][NextInterrogative]_vars

(***************************************************************************)
(* The specification SpecLoop: programs of at most MaxLoops statements,    *)
(* each the binding of the counter n or a loop on it.                      *)
(***************************************************************************)
MaxLoops == 3

LoopCondition == BinaryOp(Identifier("n"), "<", Number(3))

Increment == Assignment("n", BinaryOp(Identifier("n"), "+", Number(1)))

\* Bodies with no Return, with one, with statements after one, and bodies
\* whose statement is itself a conditional or a loop.
LoopBodies ==
    {<<Increment>>,
     <<Return(Identifier("n"))>>,
     <<Increment, Return(NoNode), Increment>>,
     <<Conditional(LoopCondition, <<Increment>>, <<Return(NoNode)>>)>>,
     <<Increment, Conditional(LoopCondition, <<Increment>>, <<>>)>>,
     <<Loop(LoopCondition, <<Increment>>), Increment>>}

Loops == {Loop(LoopCondition, body) : body \in LoopBodies}

LowerCounter == lowered < MaxLoops /\ \E n \in {BindN, UpdateN} : CompileStatement(n)

LowerLoop == lowered < MaxLoops /\ \E n \in Loops : CompileStatement(n)

NextLoop == CompileBegin \/ LowerCounter \/ LowerLoop \/ CompileEnd

SpecLoop == Init /\ [][NextLoop]_vars

(***************************************************************************)
(* The specification SpecNested: programs of at most MaxNested statements, *)
(* each the binding of m at the top level or the definition of a function  *)
(* whose body may define a function of its own.                            *)
(***************************************************************************)
MaxNested == 2

BindM == Assignment("m", Number(1))

ReturnM == Return(Identifier("m"))

OuterNames == {"f", "h"}

InnerName == [f |-> "f_inner", h |-> "h_inner"]

\* Bodies of the outer function around a definition of the inner one whose
\* body is inner: m bound before it and read after it, m read after it
\* only, and n updated after it.
NestingBodies(name, inner) ==
    {<<BindM, FunctionDef(InnerName[name], <<>>, inner), ReturnM>>,
     <<FunctionDef(InnerName[name], <<>>, inner), ReturnM>>,
     <<FunctionDef(InnerName[name], <<>>, inner), UpdateN>>}

InnerBodies ==
    {<<UpdateN>>, <<BindM>>, <<ReturnM>>, <<Return(Identifier("n"))>>,
     <<FunctionDef("innermost", <<>>, <<BindM, ReturnM>>), UpdateN>>}

NestedDefs ==
    UNION {{FunctionDef(name, <<>>, body) : body \in NestingBodies(name, inner)} :
             name \in OuterNames, inner \in InnerBodies}

FlatDefs == {FunctionDef(name, <<>>, body) : name \in OuterNames, body \in {<<BindM, ReturnM>>, <<ReturnM>>}}

LowerOuterBinding == lowered < MaxNested /\ CompileStatement(BindM)

LowerNestedDef == lowered < MaxNested /\ \E n \in NestedDefs \cup FlatDefs : CompileStatement(n)

NextNested == CompileBegin \/ LowerOuterBinding \/ LowerNestedDef \/ CompileEnd

SpecNested == Init /\ [][NextNested]_vars

(***************************************************************************)
(* The specification SpecBreak: programs of at most MaxBreaks statements,  *)
(* each the binding of n or a statement with a `break` in it.              *)
(***************************************************************************)
MaxBreaks == 3

\* Statement lists with a break: alone, after a statement, after a Return.
BreakBlocks == {<<Break>>, <<Increment, Break>>, <<Return(NoNode), Break>>}

BreakStatements ==
    {Break}
      \cup {Loop(LoopCondition, b) : b \in BreakBlocks}
      \cup {Conditional(LoopCondition, b, <<>>) : b \in BreakBlocks}
      \cup {Conditional(LoopCondition, <<Increment>>, b) : b \in BreakBlocks}
      \cup {FunctionDef("f", <<>>, b) : b \in BreakBlocks}
      \cup {Loop(LoopCondition, <<Conditional(LoopCondition, b, <<>>)>>) : b \in BreakBlocks}

LowerBreakBinding == lowered < MaxBreaks /\ \E n \in {BindN, UpdateN} : CompileStatement(n)

LowerBreak == lowered < MaxBreaks /\ \E n \in BreakStatements : CompileStatement(n)

NextBreak == CompileBegin \/ LowerBreakBinding \/ LowerBreak \/ CompileEnd

SpecBreak == Init /\ [][NextBreak]_vars

(***************************************************************************)
(* The specification SpecTerminators: programs of at most MaxTerminated    *)
(* statements, among them a Return at the top level, conditionals whose    *)
(* branches both return, loops and function definitions.                   *)
(***************************************************************************)
MaxTerminated == 3

BothReturn == Conditional(Condition, <<Return(Number(1))>>, <<Return(Number(2))>>)

TerminatedStatements ==
    {BindN, UpdateN, BothReturn,
     Conditional(Condition, <<UpdateN>>, <<>>),
     Loop(LoopCondition, <<Increment>>),
     Loop(LoopCondition, <<BothReturn, Increment>>),
     FunctionDef("f", <<>>, <<BothReturn>>),
     FunctionDef("g", <<>>, <<BothReturn, UpdateN>>)}

LowerTopLevelReturn ==
    lowered < MaxTerminated /\ \E n \in {Return(NoNode), Return(Number(1))} : CompileStatement(n)

LowerTerminated == lowered < MaxTerminated /\ \E n \in TerminatedStatements : CompileStatement(n)

NextTerminators == CompileBegin \/ LowerTopLevelReturn \/ LowerTerminated \/ CompileEnd

SpecTerminators == Init /\ [][NextTerminators]_vars

(***************************************************************************)
(* The specification SpecArgument: programs of at most MaxArguments        *)
(* statements: bindings of x and y, the definition of a function that      *)
(* assigns to its parameter, and calls of it.                              *)
(***************************************************************************)
MaxArguments == 4

\* define set as: n is 2; return n
Setter == FunctionDef("set", <<>>, <<UpdateN, Return(Identifier("n"))>>)

ArgumentBindings == {Assignment("x", Number(1)), Assignment("y", What("x")), Assignment("y", Number(3))}

SetterArguments ==
    {Identifier("x"), Identifier("y"), What("x"), Number(5),
     BinaryOp(Identifier("x"), "+", Number(0)), Interrogative("why", Identifier("x"))}

LowerArgumentBinding == lowered < MaxArguments /\ \E n \in ArgumentBindings : CompileStatement(n)

LowerSetter == lowered < MaxArguments /\ CompileStatement(Setter)

LowerArgumentCall ==
    lowered < MaxArguments /\ \E arg \in SetterArguments : CompileStatement(Relation(Identifier("set"), arg))

NextArgument ==
    CompileBegin \/ LowerArgumentBinding \/ LowerSetter \/ LowerArgumentCall \/ CompileEnd

SpecArgument == Init /\ [][NextArgument]_vars

(***************************************************************************)
(* The specification SpecRecursion: programs of at most MaxDefinitions     *)
(* statements, each the definition of even or odd, whose body calls even,  *)
(* odd or nothing, or a call of one of them at the top level.              *)
(***************************************************************************)
MaxDefinitions == 3

RecursiveNames == {"even", "odd"}

Call(f, e) == Relation(Identifier(f), e)

\* if n < 1: return 1  else: prev is n - 1; return callee of prev
Descending(callee) ==
    Conditional(Condition, <<Return(Number(1))>>,
                <<Assignment("prev", BinaryOp(Identifier("n"), "-", Number(1))),
                  Return(Call(callee, Identifier("prev")))>>)

RecursiveBodies ==
    {<<Return(Identifier("n"))>>}
      \cup {<<Return(Call(callee, Identifier("n")))>> : callee \in RecursiveNames}
      \cup {<<Descending(callee)>> : callee \in RecursiveNames}

RecursiveDefs == {FunctionDef(f, <<>>, body) : f \in RecursiveNames, body \in RecursiveBodies}

TopLevelCalls == {Call(f, e) : f \in RecursiveNames, e \in {Number(4), Identifier(Undefined)}}

LowerRecursiveDef == lowered < MaxDefinitions /\ \E n \in RecursiveDefs : CompileStatement(n)

LowerTopLevelCall == lowered < MaxDefinitions /\ \E n \in TopLevelCalls : CompileStatement(n)

NextRecursion == CompileBegin \/ LowerRecursiveDef \/ LowerTopLevelCall \/ CompileEnd

SpecRecursion == Init /\ [][NextRecursion]_vars

(***************************************************************************)
(* The specification SpecCalls: the interpreter evaluates programs that    *)
(* define functions and call them: bodies that run to their end, return,   *)
(* raise, call one another and recurse, under a limit of MaxRecursion on   *)
(* the depth and every report of convergence the tracker can make.         *)
(***************************************************************************)
MaxRecursion == 4

Define(name, body) == FunctionDef(name, <<"n">>, body)

\* define f: m is n
Completing == <<Define("f", <<Assignment("m", Identifier("n"))>>),
                Assignment("r", Call("f", Number(1))),
                Assignment("s", Call("f", Identifier("r")))>>

\* define f: return n + 1, called on the result of a call
ReturningCall == <<Define("f", <<Return(BinaryOp(Identifier("n"), "+", Number(1)))>>),
                   Assignment("r", Call("f", Call("f", Number(1)))),
                   Assignment("s", Call("f", Identifier("r")))>>

\* define f: return missing
Failing == <<Define("f", <<Return(Identifier("missing"))>>),
             Assignment("r", Call("f", Number(1)))>>

\* define g: m is f of n, where f raises
FailingInside == <<Define("f", <<Assignment("m", Identifier("n")), Identifier("missing")>>),
                   Define("g", <<Assignment("m", Call("f", Identifier("n"))), Return(Number(0))>>),
                   Assignment("r", Call("g", Number(1)))>>

\* define down: if n < 1: return 1 else: prev is n - 1; return down of prev
CountingDown(k) == <<Define("down", <<Descending("down")>>),
                     Assignment("r", Call("down", Number(k))),
                     Assignment("s", Call("down", Number(0)))>>

\* define again: return again of n
Endless == <<Define("again", <<Return(Call("again", Identifier("n")))>>),
             Assignment("r", Call("again", Number(1)))>>

\* define outer: define inner: return n; return inner of n
Enclosing == <<Define("outer", <<Define("inner", <<Return(Identifier("n"))>>),
                                 Return(Call("inner", Identifier("n")))>>),
               Assignment("r", Call("outer", Number(1))),
               Assignment("s", Call("outer", Number(2)))>>

\* define tree: if n < 1: return 1 else: left is tree of (n - 1); return tree of (n - 1)
Branching == <<Define("tree", <<Conditional(Condition, <<Return(Number(1))>>,
                  <<Assignment("left", Call("tree", BinaryOp(Identifier("n"), "-", Number(1)))),
                    Return(Call("tree", BinaryOp(Identifier("n"), "-", Number(1))))>>)>>),
               Assignment("r", Call("tree", Number(2)))>>

CallPrograms ==
    {Completing, ReturningCall, Failing, FailingInside, Endless, Enclosing, Branching}
      \cup {CountingDown(k) : k \in 0..MaxRecursion}

\* What FrameworkStrengthTracker may report: for each call of a statement,
\* counted as the calls begin, convergence or not.
Reports == SUBSET (1..(MaxRecursion + 1))

\* Interpreter(enable_convergence_detection=...), interp.max_recursion_depth
\* set to MaxRecursion, and the first lines of evaluate(Program)
InterpreterNewCalls ==
    /\ interpreter.at = "none"
    /\ \E program \in CallPrograms : \E enabled \in BOOLEAN :
       \E reports \in IF enabled THEN Reports ELSE {{}} :
          interpreter' = [Interpreter(NoLimit, program) EXCEPT
                            !.max_recursion_depth = MaxRecursion,
                            !.enable_convergence_detection = enabled,
                            !.fs_tracker = reports]
    /\ environments' = <<Environment(0)>>
    /\ UNCHANGED <<evaluated, codegenVars, parserVars, lexerVars>>

NextCalls == InterpreterNewCalls \/ EvalStatement \/ EvalReturn

SpecCalls == Init /\ [][NextCalls]_vars

(***************************************************************************)
(* What one step of compile() did, read off the state before and after.    *)
(***************************************************************************)
\* The step lowered statement n, and lowering went through or raised.
Lowers(n) ==
    /\ phase = "lowering" /\ lowered' = lowered + 1 /\ node' = n
    /\ phase' = "lowering"

Fails(n) ==
    /\ phase = "lowering" /\ lowered' = lowered + 1 /\ node' = n
    /\ phase' = "failed"

\* The places of the instructions of a module, and how many of them are
\* calls of one runtime function or instructions of one opcode.
Positions(mod) ==
    UNION {UNION {{<<f, b, i>> : i \in 1..Len(mod[f].blocks[b].instrs)} :
                  b \in 1..Len(mod[f].blocks)} : f \in 1..Len(mod)}

InstructionAt(mod, p) == mod[p[1]].blocks[p[2]].instrs[p[3]]

CountCalls(mod, callee) ==
    Cardinality({p \in Positions(mod) :
        InstructionAt(mod, p).op = "call" /\ InstructionAt(mod, p).callee = callee})

CountOps(mod, op) == Cardinality({p \in Positions(mod) : InstructionAt(mod, p).op = op})

\* Running the program emitted so far, before and after the step.
Before == RunMain(module)

After == RunMain(module')

Sum(name, k) == BinaryOp(Identifier(name), "+", Number(k))

\* The number an expression of literals and variables denotes before the step.
Denote(e) ==
    CASE e.type = "Literal" -> e.value
      [] e.type = "BinaryOp" -> ReadThrough(Before, local_vars, e.left.name) + e.right.value

DenotedExpressions == {Number(1), Number(2), Sum("x", 0)}

BothBound(a, b) == Has(local_vars, a) /\ Has(local_vars, b)

Aliased(rt, table, a, b) == ReferenceOf(rt, table, a) = ReferenceOf(rt, table, b)

(***************************************************************************)
(* C1  Aliasing versus copying.                                            *)
(***************************************************************************)
\* After `b is what is a` both slots hold the same reference.
AliasEstablished ==
    \A a \in Targets, b \in Targets :
        Lowers(Assignment(b, What(a))) => Aliased(After, local_vars', a, b)

\* While both slots hold the same reference, a scalar assignment to a is read
\* through b, and the slots go on holding the same reference.
AliasObserved ==
    \A a \in Targets, b \in Targets : \A e \in DenotedExpressions :
        (BothBound(a, b) /\ Aliased(Before, local_vars, a, b) /\ Lowers(Assignment(a, e)))
            => /\ ReadThrough(After, local_vars', b) = Denote(e)
               /\ Aliased(After, local_vars', a, b)

\* `b is a + 0` binds b to a reference that did not exist before the step.
CopyCreated(a, b) ==
    /\ ~Aliased(After, local_vars', a, b)
    /\ ReferenceOf(After, local_vars', b).v \notin DOMAIN Before.heap

\* While the slots hold different references, a scalar assignment to a leaves
\* the number read through b as it was.
CopyUnobserved ==
    \A a \in Targets, b \in Targets : \A e \in DenotedExpressions :
        (BothBound(a, b) /\ ~Aliased(Before, local_vars, a, b) /\ Lowers(Assignment(a, e)))
            => /\ ReadThrough(After, local_vars', b) = ReadThrough(Before, local_vars, b)
               /\ ~Aliased(After, local_vars', a, b)

\* C1 as stated: `y is what is x` makes y and x hold one reference, through
\* which every scalar assignment to x is read from y; `y is x + 0` binds y to
\* a newly created reference, through which assignments to x are not read.
C1_AsStated ==
    [][/\ AliasEstablished /\ AliasObserved /\ CopyUnobserved
       /\ \A a \in Targets, b \in Targets :
            (a # b /\ Lowers(Assignment(b, Sum(a, 0)))) => ~Aliased(After, local_vars', a, b)]_vars

\* C1 with the copy restricted to a name that is not bound yet: lowered for a
\* y that is already bound, `y is x + 0` updates the reference y holds in
\* place, and a y that aliased x still does.
C1_AliasingVersusCopying ==
    [][/\ AliasEstablished /\ AliasObserved /\ CopyUnobserved
       /\ \A a \in Targets, b \in Targets :
            (a # b /\ ~Has(local_vars, b) /\ Lowers(Assignment(b, Sum(a, 0))))
                => CopyCreated(a, b)]_vars

\* x is 1; y is what is x; x is 2: reading y gives 2.
C1_Witness ==
    /\ phase = "lowering" /\ lowered = 3 /\ node = Assignment("x", Number(2))
    /\ BothBound("x", "y")
    /\ Aliased(RunMain(module), local_vars, "x", "y")
    /\ ReadThrough(RunMain(module), local_vars, "y") = 2

(***************************************************************************)
(* C2  Fresh-name allocation.                                              *)
(***************************************************************************)
FreshAssignments == {n \in Assignments : n # ListAssignment}

NewSlot(n) ==
    /\ CountOps(module', "alloca") = CountOps(module, "alloca") + 1
    /\ Has(local_vars', n.identifier)
    /\ Get(local_vars', n.identifier).id >= next_id

NewReference(n) ==
    /\ CountCalls(module', "eigen_create") = CountCalls(module, "eigen_create") + 1
    /\ ReferenceOf(After, local_vars', n.identifier).v \notin DOMAIN Before.heap

\* C2 as stated: assigning to a name bound in no table allocates exactly one
\* new reference and one new slot, whatever the kind of the right-hand side.
C2_AsStated ==
    [][\A n \in FreshAssignments :
         (~Has(local_vars, n.identifier) /\ Lowers(n)) => NewSlot(n) /\ NewReference(n)]_vars

\* C2 with the kinds told apart: a fresh name always gets one new slot; a
\* scalar right-hand side is wrapped in exactly one new reference, a
\* reference right-hand side is stored as it is and no reference is created.
C2_FreshNameAllocation ==
    [][\A n \in FreshAssignments :
         (~Has(local_vars, n.identifier) /\ Lowers(n)) =>
            /\ NewSlot(n)
            /\ n.expression \in ScalarExpressions => NewReference(n)
            /\ n.expression \in ReferenceExpressions =>
                 /\ CountCalls(module', "eigen_create") = CountCalls(module, "eigen_create")
                 /\ ReferenceOf(After, local_vars', n.identifier)
                      = ReferenceOf(Before, local_vars, n.expression.expression.name)]_vars

\* x is 1; y is what is x: y has a slot of its own holding x's reference, the
\* only one created.
C2_Witness ==
    /\ phase = "lowering" /\ lowered = 2 /\ node = Assignment("y", What("x"))
    /\ BothBound("x", "y")
    /\ Get(local_vars, "x") # Get(local_vars, "y")
    /\ CountOps(module, "alloca") = 2
    /\ CountCalls(module, "eigen_create") = 1

(***************************************************************************)
(* C3  Rebinding a scalar never reallocates.                               *)
(***************************************************************************)
\* C3: assigning a scalar to a bound name emits no slot and no new reference,
\* leaves the symbol table and the reference in the slot as they were, and
\* updates that reference's payload with one update call.
C3_RebindScalarInPlace ==
    [][\A n \in FreshAssignments :
         (Has(local_vars, n.identifier) /\ n.expression \in ScalarExpressions /\ Lowers(n)) =>
            /\ local_vars' = local_vars
            /\ CountOps(module', "alloca") = CountOps(module, "alloca")
            /\ CountCalls(module', "eigen_create") = CountCalls(module, "eigen_create")
            /\ CountCalls(module', "eigen_update") = CountCalls(module, "eigen_update") + 1
            /\ ReferenceOf(After, local_vars', n.identifier)
                 = ReferenceOf(Before, local_vars, n.identifier)
            /\ After.mem = Before.mem
            /\ DOMAIN After.heap = DOMAIN Before.heap
            /\ \A r \in DOMAIN Before.heap :
                 r # ReferenceOf(Before, local_vars, n.identifier).v
                     => After.heap[r] = Before.heap[r]
            /\ n.expression \in DenotedExpressions =>
                 ReadThrough(After, local_vars', n.identifier) = Denote(n.expression)]_vars

\* x is 1; x is 2: one slot, one reference, one update, and x reads 2.
C3_Witness ==
    /\ phase = "lowering" /\ lowered = 2 /\ node = Assignment("x", Number(2))
    /\ Has(local_vars, "x")
    /\ CountOps(module, "alloca") = 1
    /\ CountCalls(module, "eigen_create") = 1
    /\ CountCalls(module, "eigen_update") = 1
    /\ ReadThrough(RunMain(module), local_vars, "x") = 2

(***************************************************************************)
(* C8  Unbound identifier.                                                 *)
(***************************************************************************)
RECURSIVE Names(_)
RECURSIVE ElementNames(_, _)

\* The names of the variables a statement reads, in the order lowering
\* reaches them.  The left side of a Relation is the callee, not a variable.
Names(n) ==
    CASE n.type = "Identifier" -> <<n.name>>
      [] n.type = "Assignment" -> Names(n.expression)
      [] n.type = "Interrogative" -> Names(n.expression)
      [] n.type = "BinaryOp" -> Names(n.left) \o Names(n.right)
      [] n.type = "Relation" -> Names(n.right)
      [] n.type = "ListLiteral" -> ElementNames(n.elements, 1)
      [] OTHER -> <<>>

ElementNames(elements, i) ==
    IF i > Len(elements) THEN <<>> ELSE Names(elements[i]) \o ElementNames(elements, i + 1)

\* The first name statement n reads that no table binds, "" when all are bound.
FirstUnbound(n) ==
    LET names == Names(n)
        unbound == {i \in 1..Len(names) :
                      ~Has(local_vars, names[i]) /\ ~Has(global_vars, names[i])}
    IN IF unbound = {} THEN ""
       ELSE names[CHOOSE i \in unbound : \A j \in unbound : i <= j]

Statements == Assignments \cup Expressions

NameErrorRaised(n) ==
    /\ Fails(n)
    /\ error' = Exception("NameError", FirstUnbound(n))
    /\ local_vars' = local_vars
    /\ global_vars' = global_vars

ScalarOperations == {"fadd", "fsub", "fmul", "fdiv", "fcmp"}

\* An operand that denotes a list: a list literal, or a variable whose slot
\* holds a list.
IsListOperand(n) ==
    \/ n.type = "ListLiteral"
    \/ /\ n.type = "Identifier"
       /\ Has(local_vars, n.name)
       /\ IsListType(Pointee(Get(local_vars, n.name).ty))

\* C9: arithmetic and comparisons are emitted on scalar operands only, and a
\* binary operation whose operands are all bound and one of which is a list
\* fails with TypeError.
C9_OperandCoercion ==
    /\ \A p \in Positions(module) :
         InstructionAt(module, p).op \in ScalarOperations
             => \A a \in 1..Len(InstructionAt(module, p).args) :
                  InstructionAt(module, p).args[a].ty = double_type
    /\ (/\ node.type = "BinaryOp" /\ FirstUnbound(node) = ""
        /\ (IsListOperand(node.left) \/ IsListOperand(node.right)))
           => phase = "failed" /\ error.type = "TypeError"

(***************************************************************************)
(* C6  Conditional termination.                                            *)
(***************************************************************************)
HasReturn(stmts) == \E i \in 1..Len(stmts) : stmts[i].type = "Return"

\* The statements of a list up to and including its first Return.
UpToReturn(stmts) ==
    IF HasReturn(stmts)
    THEN SubSeq(stmts, 1, CHOOSE i \in 1..Len(stmts) :
                            /\ stmts[i].type = "Return"
                            /\ \A j \in 1..(i - 1) : stmts[j].type # "Return")
    ELSE stmts

\* The block ends with its only terminator.
EndsWithOneTerminator(block) ==
    /\ Len(block.instrs) > 0
    /\ \A i \in 1..Len(block.instrs) : block.instrs[i].op \in Terminators <=> i = Len(block.instrs)

Last(seq) == seq[Len(seq)]

\* The instructions of function fn of mod that have block among their targets.
EdgesTo(mod, fn, block) ==
    {p \in Positions(mod) :
        /\ p[1] = fn
        /\ \E k \in 1..Len(InstructionAt(mod, p).targets) : InstructionAt(mod, p).targets[k] = block}

\* Block b of the function was lowered from the branch stmts of a conditional
\* whose merge block is merge.
BranchTerminated(blocks, b, stmts, merge) ==
    /\ EndsWithOneTerminator(blocks[b])
    /\ IF HasReturn(stmts)
       THEN /\ Last(blocks[b].instrs).op = "ret"
            /\ \A i \in 1..Len(blocks[b].instrs) : blocks[b].instrs[i].targets # <<merge>>
       ELSE /\ Last(blocks[b].instrs).op = "br"
            /\ Last(blocks[b].instrs).targets = <<merge>>

\* C6: lowering a conditional, a branch whose list has a Return ends with
\* the return, emits nothing after it and no jump to the merge block; a
\* branch without one ends with exactly one jump to the merge block; when
\* both branches return no instruction has the merge block as a target.
C6_ConditionalTermination ==
    [][\A n \in Conditionals :
         Lowers(n) =>
            LET fn == builder.fn
                then_block == Len(module[fn].blocks) + 1
                has_else == Len(n.else_block) > 0
                else_block == then_block + 1
                merge_block == builder'.block
                blocks == module'[fn].blocks
                trimmed == Conditional(n.condition, UpToReturn(n.if_block), UpToReturn(n.else_block))
            IN /\ merge_block = IF has_else THEN then_block + 2 ELSE then_block + 1
               /\ Len(blocks) = merge_block
               /\ BranchTerminated(blocks, then_block, n.if_block, merge_block)
               /\ has_else => BranchTerminated(blocks, else_block, n.else_block, merge_block)
               /\ module' = _generate(trimmed, Self).module
               /\ (has_else /\ HasReturn(n.if_block) /\ HasReturn(n.else_block))
                      => EdgesTo(module', fn, merge_block) = {}]_vars

\* n is 1; if n < 1: return 1, n is 2, return 2; else: n is 2.  The then
\* block ends with the first return, the else block with the jump to merge.
C6_Witness ==
    /\ phase = "lowering" /\ lowered = 2
    /\ node = Conditional(Condition, <<Return(Number(1)), UpdateN, Return(Number(2))>>, <<UpdateN>>)
    /\ Len(module[1].blocks) = 4
    /\ Last(module[1].blocks[2].instrs).op = "ret"
    /\ Last(module[1].blocks[3].instrs).targets = <<4>>
    /\ Cardinality(EdgesTo(module, 1, 4)) = 1

(***************************************************************************)
(* C10  Function lowering.                                                 *)
(***************************************************************************)
\* The parameter of function number func, and the slot its entry block
\* stores it in.
Parameter(func) == IRValue("arg", eigen_value_ptr, func)

\* C10: a FunctionDef lowers to a new function whose entry block stores its
\* one tracked-reference parameter in a slot named n, from which every read
\* of n in the body loads; every return returns a double; a body without a
\* top-level Return ends with `ret 0.0`; nothing is lowered after a
\* top-level Return; the enclosing symbol table and builder are restored.
C10_FunctionLowering ==
    [][\A n \in FunctionDefs :
         Lowers(n) =>
            LET func == Len(module) + 1
                blocks == module'[func].blocks
                entry == blocks[1].instrs
                F == {p \in Positions(module') : p[1] = func}
            IN /\ Len(module') = func
               /\ module'[func].name = n.name
               /\ functions'[n.name] = func
               /\ \A i \in 1..Len(module) : module'[i] = module[i]
               /\ entry[1].op = "alloca" /\ entry[1].callee = "n"
               /\ entry[1].res.ty = AsPointer(eigen_value_ptr)
               /\ entry[2].op = "store" /\ entry[2].args = <<Parameter(func), entry[1].res>>
               /\ \A p \in F :
                    LET ins == InstructionAt(module', p)
                    IN /\ \A a \in 1..Len(ins.args) : ins.args[a].k = "arg" => ins.args[a] = Parameter(func)
                       /\ ins.op = "load" => ins.args = <<entry[1].res>>
                       /\ ins.op = "ret" => ins.args[1].ty = double_type
               /\ \A b \in 1..Len(blocks) : EndsWithOneTerminator(blocks[b])
               /\ ~HasReturn(n.body) =>
                    /\ Last(Last(blocks).instrs).op = "ret"
                    /\ Last(Last(blocks).instrs).args = <<Constant(double_type, 0)>>
               /\ module' = _generate(FunctionDef(n.name, n.parameters, UpToReturn(n.body)), Self).module
               /\ local_vars' = local_vars /\ builder' = builder
               /\ current_function' = current_function]_vars

\* define f as: n is 2.  The body has no Return and f ends with ret 0.0.
C10_Witness ==
    /\ phase = "lowering" /\ lowered = 1 /\ node = FunctionDef("f", <<>>, <<UpdateN>>)
    /\ Len(module) = 2 /\ module[2].name = "f"
    /\ Last(module[2].blocks[1].instrs).op = "ret"
    /\ Last(module[2].blocks[1].instrs).args = <<Constant(double_type, 0)>>
    /\ local_vars = <<>>

(***************************************************************************)
(* C4  Precedence ladder.                                                  *)
(***************************************************************************)
\* How tightly the operator at the root of an expression binds: comparisons
\* 1, + and - 2, * and / 3, `of` 4, a primary 5.
Level(n) ==
    CASE n.type = "BinaryOp" /\ n.operator \in {"=", "<", ">"} -> 1
      [] n.type = "BinaryOp" /\ n.operator \in {"+", "-"} -> 2
      [] n.type = "BinaryOp" /\ n.operator \in {"*", "/"} -> 3
      [] n.type = "Relation" -> 4
      [] OTHER -> 5

RECURSIVE Ladder(_)
RECURSIVE Frontier(_)

\* No operand of an operator has a looser operator at its root.
Ladder(n) ==
    CASE n.type = "BinaryOp" ->
           /\ Level(n.left) >= Level(n) /\ Level(n.right) >= Level(n)
           /\ Ladder(n.left) /\ Ladder(n.right)
      [] n.type = "Relation" ->
           /\ Level(n.left) >= 4 /\ Level(n.right) >= 4
           /\ Ladder(n.left) /\ Ladder(n.right)
      [] OTHER -> TRUE

\* The tokens of an expression without parentheses, left to right.
Frontier(n) ==
    CASE n.type = "BinaryOp" ->
           Frontier(n.left)
             \o <<Keyword(CHOOSE k \in DOMAIN op_map : op_map[k] = n.operator)>>
             \o Frontier(n.right)
      [] n.type = "Relation" -> Frontier(n.left) \o <<Keyword("OF")>> \o Frontier(n.right)
      [] n.type = "Identifier" -> <<Token("IDENTIFIER", n.name)>>
      [] n.type = "Literal" -> <<Token("NUMBER", n.value)>>

Parsed == parsed.status = "ok"

\* C4: an expression of binary operators parses to one tree that reads as
\* the tokens read and in which `of` is never above * or /, these never
\* above + or -, and these never above a comparison; `a + b of c` parses to
\* BinaryOp(a, '+', Relation(b, c)).
C4_PrecedenceLadder ==
    (Parsed /\ tokens \in ExpressionStreams) =>
        /\ Len(parsed.statements) = 1
        /\ Frontier(parsed.statements[1]) \o <<EndOfFile>> = tokens
        /\ Ladder(parsed.statements[1])
        /\ \A kind \in OperandKinds :
             tokens = ExpressionTokens(kind, <<"PLUS", "OF">>) =>
                parsed.statements[1] =
                    BinaryOp(Atom(OperandToken(kind, 1)), "+",
                             Relation(Atom(OperandToken(kind, 2)), Atom(OperandToken(kind, 3))))

\* a + b of c has been parsed.
C4_Witness ==
    /\ Parsed
    /\ tokens = ExpressionTokens("IDENTIFIER", <<"PLUS", "OF">>)
    /\ parsed.statements =
         <<BinaryOp(Identifier("a"), "+", Relation(Identifier("b"), Identifier("c")))>>

(***************************************************************************)
(* C5  Right-associativity of the relation operator.                       *)
(***************************************************************************)
RECURSIVE RelationsNestRight(_)
RECURSIVE Chain(_, _, _)

\* The left operand of every Relation is a primary.
RelationsNestRight(n) ==
    CASE n.type = "Relation" -> Level(n.left) = 5 /\ RelationsNestRight(n.right)
      [] n.type = "BinaryOp" -> RelationsNestRight(n.left) /\ RelationsNestRight(n.right)
      [] OTHER -> TRUE

\* Relation(operand i, Relation(operand i + 1, ... operand last)).
Chain(kind, i, last) ==
    IF i = last THEN Atom(OperandToken(kind, i))
    ELSE Relation(Atom(OperandToken(kind, i)), Chain(kind, i + 1, last))

\* C5: in every parsed expression the left operand of each Relation is a
\* primary, and a chain `a of b of ... of z` parses to
\* Relation(a, Relation(b, ... z)).
C5_RelationRightAssociative ==
    (Parsed /\ tokens \in ExpressionStreams) =>
        /\ Len(parsed.statements) = 1
        /\ RelationsNestRight(parsed.statements[1])
        /\ \A kind \in OperandKinds : \A k \in 1..MaxOperators :
             tokens = ExpressionTokens(kind, [i \in 1..k |-> "OF"]) =>
                parsed.statements[1] = Chain(kind, 1, k + 1)

\* a of b of c has been parsed.
C5_Witness ==
    /\ Parsed
    /\ tokens = ExpressionTokens("IDENTIFIER", <<"OF", "OF">>)
    /\ parsed.statements =
         <<Relation(Identifier("a"), Relation(Identifier("b"), Identifier("c")))>>

(***************************************************************************)
(* C7  SyntaxError, fail fast.                                             *)
(***************************************************************************)
Count(kind) == Cardinality({i \in 1..Len(tokens) : tokens[i].type = kind})

\* More blocks, parentheses or brackets are opened than closed, or fewer:
\* no production of the grammar matches such a list.
Unbalanced ==
    \/ Count("INDENT") # Count("DEDENT")
    \/ Count("LPAREN") # Count("RPAREN")
    \/ Count("LBRACKET") # Count("RBRACKET")

\* C7: parse() ends by returning a Program or by raising SyntaxError; on a
\* list that is unbalanced it raises; when it raises no Program is returned;
\* on a statement cut short it raises at the end of the file, having
\* consumed nothing beyond.
C7_SyntaxErrorFailFast ==
    /\ parsed.status \in {"idle", "parsing", "ok", "SyntaxError"}
    /\ (parsed.status # "parsing" /\ tokens \in StatementStreams /\ Unbalanced)
           => parsed.status = "SyntaxError"
    /\ parsed.status = "SyntaxError" =>
           /\ parsed.statements = <<>>
           /\ position < Len(tokens)
           /\ \A w \in WellFormed : \A i \in 0..(Len(w) - 1) :
                tokens = Truncate(w, i) => position = i

(***************************************************************************)
(* C11  Relation-as-call dispatch.                                         *)
(***************************************************************************)
\* The calls of one callee the step added to the module.
NewCalls(callee) ==
    {p \in Positions(module') \ Positions(module) :
        InstructionAt(module', p).op = "call" /\ InstructionAt(module', p).callee = callee}

IsPrint(n) == n.left.type = "Identifier" /\ n.left.name = "print"

IsFunctionCall(n) ==
    n.left.type = "Identifier" /\ n.left.name # "print" /\ n.left.name \in DOMAIN functions

\* One call of printf, whose value argument is a scalar, and no call of a function.
PrintCalled ==
    /\ Cardinality(NewCalls("printf")) = 1
    /\ \A p \in NewCalls("printf") : InstructionAt(module', p).args[2].ty = double_type
    /\ \A f \in DOMAIN functions : NewCalls(f) = {}

\* One call of the function, whose argument is a reference, and no call of printf.
FunctionCalled(f) ==
    /\ Cardinality(NewCalls(f)) = 1
    /\ \A p \in NewCalls(f) : InstructionAt(module', p).args[1].ty = eigen_value_ptr
    /\ NewCalls("printf") = {}

\* No instruction was added and lowering stopped with the error for a
\* relation that is no call.
NoCallEmitted ==
    /\ phase' = "failed"
    /\ error'.type = "NotImplementedError"
    /\ module' = module

\* C11: a relation on print that lowers emits one call of printf with a
\* scalar argument; a relation on a defined function that lowers emits one
\* call of that function with a reference argument; lowering any other
\* relation fails and emits nothing.
C11_RelationDispatch ==
    [][\A n \in Relations :
         /\ (IsPrint(n) /\ Lowers(n)) => PrintCalled
         /\ (IsFunctionCall(n) /\ Lowers(n)) => FunctionCalled(n.left.name)
         /\ (/\ phase = "lowering" /\ node' = n /\ lowered' = lowered + 1
             /\ ~IsPrint(n) /\ ~IsFunctionCall(n)) => NoCallEmitted]_vars

(***************************************************************************)
(* C13  Environment.lookup.                                                *)
(***************************************************************************)
RECURSIVE Ancestors(_, _)

\* Environment e and the environments above it, nearest first.
Ancestors(envs, e) ==
    <<e>> \o (IF envs[e].parent = 0 THEN <<>> ELSE Ancestors(envs, envs[e].parent))

\* The nearest environment at or above e that binds name, 0 when none does.
Binder(envs, e, name) ==
    LET chain == Ancestors(envs, e)
        binding == {i \in 1..Len(chain) : name \in DOMAIN envs[chain[i]].bindings}
    IN IF binding = {} THEN 0
       ELSE chain[CHOOSE i \in binding : \A j \in binding : i <= j]

\* lookup from every environment gives the binding of the nearest binder,
\* and raises NameError where there is none.
NearestBinding(envs) ==
    \A e \in 1..Len(envs) : \A name \in LookedUpNames :
        LET b == Binder(envs, e, name)
        IN lookup(envs, e, name) =
             IF b = 0 THEN Raised("NameError", name) ELSE Returned(envs[b].bindings[name])

\* The step bound name in environment e, to a value it did not have there.
Binds(e, name) ==
    /\ Len(environments') = Len(environments)
    /\ name \in DOMAIN environments'[e].bindings
    /\ name \in DOMAIN environments[e].bindings
         => environments'[e].bindings[name] # environments[e].bindings[name]

\* C13: lookup returns the binding of the nearest environment at or above
\* that binds the name and raises NameError when none does; after a bind the
\* environment reads the value just bound, as does every environment below
\* for which it is the nearest binder, and every other lookup, those from
\* the environments above among them, returns what it returned before.
C13_LookupNearestBinding ==
    [][/\ NearestBinding(environments')
       /\ evaluated' # evaluated =>
            \E e \in 1..Len(environments) : \E name \in LookedUpNames :
                evaluated' = lookup(environments, e, name)
       /\ \A e \in 1..Len(environments) : \A name \in BoundNames :
            Binds(e, name) =>
              /\ lookup(environments', e, name) = Returned(environments'[e].bindings[name])
              /\ \A d \in 1..Len(environments) : \A m \in LookedUpNames :
                   IF m = name /\ Binder(environments', d, m) = e
                   THEN lookup(environments', d, m) = lookup(environments', e, name)
                   ELSE lookup(environments', d, m) = lookup(environments, d, m)]_vars

\* Three environments in a chain, x bound to 1 in the first and to 2 in the
\* second: the third reads 2 and the first still reads 1, and a lookup has
\* returned 2.
C13_Witness ==
    /\ Len(environments) = 3
    /\ environments[2].parent = 1 /\ environments[3].parent = 2
    /\ "x" \in DOMAIN environments[1].bindings /\ environments[1].bindings["x"] = embed_scalar(1)
    /\ "x" \in DOMAIN environments[2].bindings /\ environments[2].bindings["x"] = embed_scalar(2)
    /\ "x" \notin DOMAIN environments[3].bindings
    /\ lookup(environments, 3, "x") = Returned(embed_scalar(2))
    /\ lookup(environments, 1, "x") = Returned(embed_scalar(1))
    /\ lookup(environments, 3, Undefined) = Raised("NameError", Undefined)
    /\ evaluated = Returned(embed_scalar(2))

(***************************************************************************)
(* C14  tokenize() ends its result with the one EOF token.                 *)
(***************************************************************************)
CountTokens(toks, kind) == Cardinality({i \in 1..Len(toks) : toks[i].type = kind})

\* C14: whatever the source and however often tokenize() was called before,
\* what it returns ends with an EOF token and holds no other; for the empty
\* source it is the EOF token alone.
C14_OneEndOfFile ==
    lexed.status = "returned" =>
        /\ Len(lexed.returned) >= 1
        /\ lexed.returned[Len(lexed.returned)].type = "EOF"
        /\ CountTokens(lexed.returned, "EOF") = 1
        /\ tokenizer.source = <<>> => lexed.returned = <<Token("EOF", "")>>

(***************************************************************************)
(* C15  Indentation tokens.                                                *)
(***************************************************************************)
\* The places where the lines of a source start, and the width of the
\* whitespace that leads the line starting at place s.
LineStarts(source) ==
    {s \in 1..Len(source) : s = 1 \/ source[s - 1] = "\n"}

LeadingWidth(source, s) ==
    CHOOSE w \in 0..Len(source) :
        /\ \A j \in s..(s + w - 1) : j <= Len(source) /\ source[j] = " "
        /\ s + w > Len(source) \/ source[s + w] # " "

\* A line is indented more than one before it, and a later line less than it.
HasIndentedBlock(source) ==
    \E a \in LineStarts(source), b \in LineStarts(source), c \in LineStarts(source) :
        /\ a < b /\ b < c
        /\ LeadingWidth(source, a) < LeadingWidth(source, b)
        /\ LeadingWidth(source, c) < LeadingWidth(source, b)

\* C15: the tokens of a source hold a NEWLINE for every line end, and an
\* INDENT and a DEDENT when a block is indented and a later line is not.
C15_IndentationTokens ==
    lexed.status = "returned" =>
        /\ CountTokens(lexed.returned, "NEWLINE")
             >= Cardinality({i \in 1..Len(tokenizer.source) : tokenizer.source[i] = "\n"})
        /\ HasIndentedBlock(tokenizer.source) =>
             /\ CountTokens(lexed.returned, "INDENT") >= 1
             /\ CountTokens(lexed.returned, "DEDENT") >= 1

(***************************************************************************)
(* C16  Parenthesized groups.                                              *)
(***************************************************************************)
\* The node the parser makes of an element on its own.
ElementNode(element) == parse_expression(Parser(Append(element, EndOfFile))).ret

IsNumeric(element) == Len(element) = 1 /\ element[1].type = "NUMBER"

AllNumeric(elements) == \A i \in 1..Len(elements) : IsNumeric(elements[i])

NumericValues(elements) == [i \in 1..Len(elements) |-> elements[i][1].value]

IsVector(n) == n.type = "Literal" /\ n.literal_type = "vector"

\* Equality of two nodes, decided on their kinds first.
SameNode(a, b) ==
    /\ a.type = b.type
    /\ a.type = "Literal" => a.literal_type = b.literal_type
    /\ a = b

\* The statement `x is <group>` has been parsed without an error.
GroupParsed ==
    /\ parsed.status \in {"parsing", "ok"}
    /\ position > 0 =>
         /\ Len(parsed.statements) = 1
         /\ parsed.statements[1].type = "Assignment"

ElementNodes(elements) == [i \in 1..Len(elements) |-> ElementNode(elements[i])]

RECURSIVE Interrogatives(_)
RECURSIVE InterrogativesOf(_, _)

\* The Interrogative nodes of a statement.  The elements of a vector Literal
\* are not searched.
Interrogatives(n) ==
    CASE n.type = "Interrogative" -> {n} \cup Interrogatives(n.expression)
      [] n.type \in {"Assignment", "Return"} -> Interrogatives(n.expression)
      [] n.type \in {"BinaryOp", "Relation"} -> Interrogatives(n.left) \cup Interrogatives(n.right)
      [] n.type = "Conditional" ->
           Interrogatives(n.condition) \cup InterrogativesOf(n.if_block, 1)
             \cup InterrogativesOf(n.else_block, 1)
      [] n.type = "Loop" -> Interrogatives(n.condition) \cup InterrogativesOf(n.body, 1)
      [] n.type = "FunctionDef" -> InterrogativesOf(n.body, 1)
      [] OTHER -> {}

InterrogativesOf(statements, i) ==
    IF i > Len(statements) THEN {}
    ELSE Interrogatives(statements[i]) \cup InterrogativesOf(statements, i + 1)

\* In the tokens an interrogative keyword of this kind is followed, after
\* its optional IS, by an opening parenthesis.
ParenthesizedOperand(kind) ==
    \E i \in 1..Len(tokens) :
        /\ tokens[i].type \in DOMAIN interrogative_map
        /\ interrogative_map[tokens[i].type] = kind
        /\ \/ i + 1 <= Len(tokens) /\ tokens[i + 1].type = "LPAREN"
           \/ /\ i + 2 <= Len(tokens)
              /\ tokens[i + 1].type = "IS"
              /\ tokens[i + 2].type = "LPAREN"

LoopLeft ==
    /\ interpreter.at \in {"running", "done"}
    /\ interpreter.pc > 0
    /\ interpreter.program[interpreter.pc].type = "Loop"

LoopRaised ==
    /\ interpreter.at = "raised"
    /\ interpreter.program[interpreter.pc + 1].type = "Loop"

\* The places in the loop's trace of the runs of its body, and the last event.
BodyRuns == {i \in 1..Len(interpreter.trace) : interpreter.trace[i].event = "body"}

LastEvent == interpreter.trace[Len(interpreter.trace)].event

\* The condition is evaluated before every run of the body, the body runs
\* once after every time it is truthy, and nothing follows the exit.
ConditionTested ==
    LET trace == interpreter.trace
    IN \A i \in 1..Len(trace) :
          /\ trace[i].event = "body" => i > 1 /\ trace[i - 1].event = "true"
          /\ trace[i].event = "true" =>
                /\ trace[i].value.coords[1] # 0
                /\ i < Len(trace) => trace[i + 1].event = "body"
          /\ trace[i].event = "false" => trace[i].value.coords[1] = 0
          /\ trace[i].event \in {"false", "limit", "converged"} => i = Len(trace)

\* The value of a run of the body equals that of the run before it.
Repeats(i) ==
    /\ i - 2 \in BodyRuns
    /\ within_threshold(interpreter.trace[i].value, interpreter.trace[i - 2].value)

RECURSIVE Product(_)

Product(n) == IF n = 0 THEN 1 ELSE n * Product(n - 1)

\* The counter loop of the factorial of n runs its body n times and leaves
\* result = n!, when the limit on iterations allows n of them.
FactorialComputed ==
    \A n \in 0..MaxN :
        (/\ LoopLeft
         /\ interpreter.program = Factorial(n)
         /\ interpreter.max_iterations = NoLimit \/ interpreter.max_iterations >= n)
        => /\ Cardinality(BodyRuns) = n
           /\ lookup(environments, 1, "result") = Returned(embed_scalar(Product(n)))

\* C19 as stated: the loop is left only when its condition is false or
\* max_iterations iterations have run.
C19_AsStated ==
    /\ (LoopLeft \/ LoopRaised) => ConditionTested
    /\ LoopLeft =>
         /\ LastEvent \in {"false", "limit"}
         /\ LastEvent = "limit" => Cardinality(BodyRuns) = interpreter.max_iterations
    /\ FactorialComputed

\* C19: the condition is evaluated before every iteration and the body runs
\* once for each time it is truthy; short of an exception the loop is left
\* only when the condition is false, when max_iterations iterations have
\* run, or when a run of the body gives the value the run before it gave,
\* and it is left the first time that happens; the counter loop of the
\* factorial of 5 runs its body 5 times and leaves result = 120.
C19_ConditionTestedLoop ==
    /\ (LoopLeft \/ LoopRaised) => ConditionTested
    /\ LoopLeft =>
         /\ LastEvent \in {"false", "limit", "converged"}
         /\ LastEvent = "limit" => Cardinality(BodyRuns) = interpreter.max_iterations
         /\ LastEvent = "converged" => Repeats(Len(interpreter.trace) - 1)
         /\ \A i \in BodyRuns : Repeats(i) =>
               i = Len(interpreter.trace) - 1 /\ LastEvent = "converged"
    /\ FactorialComputed

\* The factorial of 5 has been computed with no limit on iterations.
C19_Witness ==
    /\ interpreter.at = "done"
    /\ interpreter.program = Factorial(5)
    /\ interpreter.max_iterations = NoLimit
    /\ Cardinality(BodyRuns) = 5
    /\ lookup(environments, 1, "result") = Returned(embed_scalar(120))

(***************************************************************************)
(* C20  Rebinding a bound name to a reference.                             *)
(***************************************************************************)
\* C20: `b is what is a` lowered for a b that is bound emits one store into
\* b's slot and no slot, update or create; running the program, b then
\* holds a's reference, no tracked value has changed, and every other name
\* holds the reference and reads the number it did before.
C20_RebindStoresReference ==
    [][\A a \in AliasTargets, b \in AliasTargets :
         (Has(local_vars, b) /\ Lowers(Assignment(b, What(a)))) =>
            /\ local_vars' = local_vars
            /\ CountOps(module', "store") = CountOps(module, "store") + 1
            /\ CountOps(module', "alloca") = CountOps(module, "alloca")
            /\ CountCalls(module', "eigen_update") = CountCalls(module, "eigen_update")
            /\ CountCalls(module', "eigen_create") = CountCalls(module, "eigen_create")
            /\ After.heap = Before.heap
            /\ ReferenceOf(After, local_vars', b) = ReferenceOf(Before, local_vars, a)
            /\ \A c \in AliasTargets \ {b} :
                 Has(local_vars, c) =>
                    /\ ReferenceOf(After, local_vars', c) = ReferenceOf(Before, local_vars, c)
                    /\ ReadThrough(After, local_vars', c) = ReadThrough(Before, local_vars, c)]_vars

\* x is 1; y is 2; z is what is y; y is what is x: y reads 1 through x's
\* reference and z still reads 2 through the reference y held.
C20_Witness ==
    /\ phase = "lowering" /\ lowered = 4 /\ node = Assignment("y", What("x"))
    /\ \A c \in AliasTargets : Has(local_vars, c)
    /\ Aliased(RunMain(module), local_vars, "x", "y")
    /\ ~Aliased(RunMain(module), local_vars, "y", "z")
    /\ ReadThrough(RunMain(module), local_vars, "y") = 1
    /\ ReadThrough(RunMain(module), local_vars, "z") = 2

(***************************************************************************)
(* C21  Interrogatives of a bound identifier.                              *)
(***************************************************************************)
\* The instructions the step appended to the block the builder stood in.
Emitted ==
    LET before == module[builder.fn].blocks[builder.block].instrs
        after == module'[builder.fn].blocks[builder.block].instrs
    IN SubSeq(after, Len(before) + 1, Len(after))

\* Instruction ins calls the accessor callee on the reference ptr and gives
\* a value of type ty.
Reads(ins, callee, ptr, ty) ==
    /\ ins.op = "call" /\ ins.callee = callee
    /\ ins.args = <<ptr>>
    /\ ins.res.ty = ty

\* C21: lowering what/why/how/when of a bound identifier x loads x's slot
\* and creates no tracked value; the loaded value is, when the program
\* runs, the reference x's slot holds; `what` returns it with reference
\* kind and emits nothing else; `why` and `how` return with scalar kind the
\* double eigen_get_gradient and eigen_get_stability give for it; `when`
\* returns with scalar kind the integer eigen_get_iteration gives for it
\* converted to double, which is the number of updates of the reference.
C21_InterrogativeOfBound ==
    [][\A kind \in {"what", "why", "how", "when"}, x \in QuestionNames :
         LET n == Interrogative(kind, Identifier(x))
             made == _generate(n, Self)
             eigen_ptr == Emitted[1].res
         IN (/\ Has(local_vars, x)
             /\ phase = "lowering" /\ lowered' = lowered + 1 /\ node' = n)
            => /\ phase' = "lowering"
               /\ made.module = module'
               /\ local_vars' = local_vars
               /\ Len(Emitted) >= 1
               /\ Emitted[1].op = "load" /\ Emitted[1].args = <<Get(local_vars, x)>>
               /\ CountCalls(module', "eigen_create") = CountCalls(module, "eigen_create")
               /\ After.heap = Before.heap
               /\ Eval(After, eigen_ptr) = ReferenceOf(Before, local_vars, x)
               /\ kind = "what" =>
                     /\ Len(Emitted) = 1
                     /\ made.ret = GeneratedValue(eigen_ptr, EIGEN_PTR)
               /\ kind = "why" =>
                     /\ Len(Emitted) = 2
                     /\ Reads(Emitted[2], "eigen_get_gradient", eigen_ptr, double_type)
                     /\ made.ret = GeneratedValue(Emitted[2].res, SCALAR)
               /\ kind = "how" =>
                     /\ Len(Emitted) = 2
                     /\ Reads(Emitted[2], "eigen_get_stability", eigen_ptr, double_type)
                     /\ made.ret = GeneratedValue(Emitted[2].res, SCALAR)
               /\ kind = "when" =>
                     /\ Len(Emitted) = 3
                     /\ Reads(Emitted[2], "eigen_get_iteration", eigen_ptr, "i64")
                     /\ Emitted[3].op = "sitofp"
                     /\ Emitted[3].args = <<Emitted[2].res>>
                     /\ Emitted[3].res.ty = double_type
                     /\ made.ret = GeneratedValue(Emitted[3].res, SCALAR)
                     /\ Eval(After, Emitted[3].res) =
                          Num(Before.heap[ReferenceOf(Before, local_vars, x).v].iteration)]_vars

\* x is 1; x is 2; when is x: the last statement was lowered and x's
\* reference has been updated once.
C21_Witness ==
    /\ phase = "lowering" /\ lowered = 3
    /\ node = Interrogative("when", Identifier("x"))
    /\ Has(local_vars, "x")
    /\ RunMain(module).heap[ReferenceOf(RunMain(module), local_vars, "x").v].iteration = 1

(***************************************************************************)
(* C22  Lowering a loop.                                                   *)
(***************************************************************************)
\* The blocks of the function the builder stood in, after the step; the
\* three blocks the step appended first.
BlocksAfter == module'[builder.fn].blocks

LoopCond == Len(module[builder.fn].blocks) + 1

LoopBody == LoopCond + 1

LoopEnd == LoopCond + 2

\* The blocks other than the one the loop was entered from that end with a
\* jump to the condition block.
BackEdges ==
    {b \in 1..Len(BlocksAfter) :
        /\ b # builder.block
        /\ Len(BlocksAfter[b].instrs) > 0
        /\ Last(BlocksAfter[b].instrs).op = "br"
        /\ Last(BlocksAfter[b].instrs).targets = <<LoopCond>>}

\* A statement of the list opens blocks of its own.
HasNested(stmts) == \E i \in 1..Len(stmts) : stmts[i].type \in {"Conditional", "Loop"}

\* The step entered the condition block from the block the builder stood
\* in, the condition block ends with the conditional branch to the body
\* block or the end block, and lowering goes on in the end block.
LoopShape ==
    /\ Len(BlocksAfter) >= LoopEnd
    /\ BlocksAfter[builder.block].instrs =
         Append(module[builder.fn].blocks[builder.block].instrs,
                Last(BlocksAfter[builder.block].instrs))
    /\ Last(BlocksAfter[builder.block].instrs).op = "br"
    /\ Last(BlocksAfter[builder.block].instrs).targets = <<LoopCond>>
    /\ EndsWithOneTerminator(BlocksAfter[LoopCond])
    /\ Last(BlocksAfter[LoopCond].instrs).op = "cbranch"
    /\ Last(BlocksAfter[LoopCond].instrs).targets = <<LoopBody, LoopEnd>>
    /\ EdgesTo(module', builder.fn, LoopBody) = {<<builder.fn, LoopCond, Len(BlocksAfter[LoopCond].instrs)>>}
    /\ builder' = [fn |-> builder.fn, block |-> LoopEnd]
    /\ BlocksAfter[LoopEnd].instrs = <<>>

\* A body with a Return is lowered up to the Return and jumps nowhere back.
ReturnEndsBody(n) ==
    HasReturn(n.body) =>
        /\ BackEdges = {}
        /\ module' = _generate(Loop(n.condition, UpToReturn(n.body)), Self).module
        /\ \E b \in LoopBody..Len(BlocksAfter) :
              b # LoopEnd /\ Len(BlocksAfter[b].instrs) > 0 /\ Last(BlocksAfter[b].instrs).op = "ret"

\* n is 1 followed by the counting loop leaves n = 3 when the code runs.
CountsToThree ==
    (/\ lowered = 1 /\ node = BindN
     /\ node' = Loop(LoopCondition, <<Increment>>))
    => /\ After.status = "open"
       /\ ReadThrough(After, local_vars', "n") = 3
       /\ After.heap[ReferenceOf(After, local_vars', "n").v].iteration = 2

\* C22 as stated: the body block itself ends with the jump back to the
\* condition block when the body's list has no Return.
C22_AsStated ==
    [][\A n \in Loops : Lowers(n) =>
         /\ LoopShape
         /\ ReturnEndsBody(n)
         /\ ~HasReturn(n.body) =>
               /\ EndsWithOneTerminator(BlocksAfter[LoopBody])
               /\ Last(BlocksAfter[LoopBody].instrs).op = "br"
               /\ Last(BlocksAfter[LoopBody].instrs).targets = <<LoopCond>>
         /\ CountsToThree]_vars

\* C22: lowering a loop appends a condition, a body and an end block; the
\* current block jumps to the condition block, which ends with the
\* conditional branch to the body block (truthy) or the end block (falsy);
\* when the body's list has no Return, the block in which the lowering of
\* the body ends, which is the body block unless a statement of the body is
\* a conditional or a loop, ends with the one jump back to the condition
\* block; when it has a Return no jump back is emitted and nothing after
\* the Return is lowered; lowering goes on in the end block.
C22_LoopLowering ==
    [][\A n \in Loops : Lowers(n) =>
         /\ LoopShape
         /\ ReturnEndsBody(n)
         /\ ~HasReturn(n.body) =>
               /\ Cardinality(BackEdges) = 1
               /\ \A b \in BackEdges :
                     /\ b >= LoopBody /\ b # LoopEnd
                     /\ EndsWithOneTerminator(BlocksAfter[b])
                     /\ ~HasNested(n.body) => b = LoopBody
               /\ EndsWithOneTerminator(BlocksAfter[LoopBody])
         /\ CountsToThree]_vars

\* n is 1 and the counting loop have been lowered: main has four blocks and
\* its body block ends with the jump back.
C22_Witness ==
    /\ phase = "lowering" /\ lowered = 2
    /\ node = Loop(LoopCondition, <<Increment>>)
    /\ Len(module[1].blocks) = 4
    /\ Last(module[1].blocks[3].instrs).targets = <<2>>
    /\ ReadThrough(RunMain(module), local_vars, "n") = 3

(***************************************************************************)
(* C23  The context of a function definition.                              *)
(***************************************************************************)
\* The operations of a function's blocks, without the numbers of their
\* results.
OpsOf(fn) ==
    [b \in 1..Len(fn.blocks) |->
        [i \in 1..Len(fn.blocks[b].instrs) |->
            <<fn.blocks[b].instrs[i].op, fn.blocks[b].instrs[i].callee>>]]

IsNotDef(stmt) == stmt.type # "FunctionDef"

WithoutDefs(stmts) == SelectSeq(stmts, IsNotDef)

RECURSIVE DefinedIn(_, _)

\* The names of the functions a statement list defines, at any depth.
DefinedIn(stmts, i) ==
    IF i > Len(stmts) THEN {}
    ELSE IF stmts[i].type = "FunctionDef"
    THEN {stmts[i].name} \cup DefinedIn(stmts[i].body, 1) \cup DefinedIn(stmts, i + 1)
    ELSE DefinedIn(stmts, i + 1)

\* The function definitions that are statements of the list.
DefsOf(stmts) == {stmts[i] : i \in {j \in 1..Len(stmts) : stmts[j].type = "FunctionDef"}}

\* The step left the enclosing context as it was: current function, cursor,
\* both symbol tables, every function the module had and every entry the
\* function table had.
ContextRestored ==
    /\ current_function' = current_function
    /\ builder' = builder
    /\ local_vars' = local_vars
    /\ global_vars' = global_vars
    /\ \A i \in 1..Len(module) : module'[i] = module[i]
    /\ \A name \in DOMAIN functions : functions'[name] = functions[name]

\* The code of definition d in the module after the step is the code d
\* gives when it is lowered alone and without the definitions inside it.
RECURSIVE LoweredAlone(_)

LoweredAlone(d) ==
    /\ d.name \in DOMAIN functions'
    /\ module'[functions'[d.name]].name = d.name
    /\ OpsOf(module'[functions'[d.name]]) =
         OpsOf(Last(_generate(FunctionDef(d.name, d.parameters, WithoutDefs(d.body)), Self).module))
    /\ \A inner \in DefsOf(d.body) : LoweredAlone(inner)

RECURSIVE ReadsUnboundM(_)

\* The body of d, or of a definition inside it, reads m and does not bind
\* it: m is bound, if at all, only in a function nested in that body, in a
\* function around it or at the top level.
ReadsUnboundM(d) ==
    \/ /\ \E i \in 1..Len(d.body) : d.body[i] = ReturnM
       /\ ~\E i \in 1..Len(d.body) : d.body[i] = BindM
    \/ \E inner \in DefsOf(d.body) : ReadsUnboundM(inner)

\* C23: a FunctionDef lowered at the top level, with the definitions nested
\* in its body, leaves the current function, the cursor and the symbol
\* tables as they were and no existing function changed; the function table
\* gains the entries of the definitions lowered and nothing else; each
\* function, nested or not, has the code its body gives when lowered alone
\* from a table that holds only n; a body that reads a name bound only in
\* the function nested in it, or only in the function around it, or only at
\* the top level, fails with NameError.
C23_FunctionContext ==
    [][\A d \in NestedDefs \cup FlatDefs :
         /\ Lowers(d) =>
               /\ ContextRestored
               /\ DOMAIN functions' = DOMAIN functions \cup DefinedIn(<<d>>, 1)
               /\ Len(module') = Len(module) + Cardinality(DefinedIn(<<d>>, 1))
               /\ LoweredAlone(d)
               /\ ~ReadsUnboundM(d)
         /\ (/\ phase = "lowering" /\ lowered' = lowered + 1 /\ node' = d
             /\ ReadsUnboundM(d)
             /\ DefinedIn(<<d>>, 1) \cap ModuleNames(module) = {})
            => phase' = "failed" /\ error' = Exception("NameError", "m")]_vars

\* m is 1 at the top level, then f defined with m bound, f_inner defined
\* inside it and m returned: main's table holds m alone, the cursor is in
\* main, and the module has main, f and f_inner.
C23_Witness ==
    /\ phase = "lowering" /\ lowered = 2
    /\ node = FunctionDef("f", <<>>,
                <<BindM, FunctionDef("f_inner", <<>>, <<UpdateN>>), ReturnM>>)
    /\ builder = [fn |-> 1, block |-> 1] /\ current_function = 1
    /\ Has(local_vars, "m") /\ ~Has(local_vars, "n") /\ Len(local_vars) = 1
    /\ DOMAIN functions = {"f", "f_inner"}
    /\ Len(module) = 3
    /\ Last(module[2].blocks[1].instrs).op = "ret"

(***************************************************************************)
(* C24  Break.                                                             *)
(***************************************************************************)
RECURSIVE Live(_)
RECURSIVE LiveList(_, _)
RECURSIVE WithoutBreaks(_)
RECURSIVE WithoutBreaksList(_, _)
RECURSIVE ContainsBreak(_)

\* The statements the backend lowers: in a body or a branch, those up to
\* and including the first Return.
LiveList(stmts, i) ==
    IF i > Len(stmts) THEN <<>>
    ELSE IF stmts[i].type = "Return" THEN <<stmts[i]>>
    ELSE <<Live(stmts[i])>> \o LiveList(stmts, i + 1)

Live(n) ==
    CASE n.type = "Loop" -> Loop(n.condition, LiveList(n.body, 1))
      [] n.type = "Conditional" ->
           Conditional(n.condition, LiveList(n.if_block, 1), LiveList(n.else_block, 1))
      [] n.type = "FunctionDef" -> FunctionDef(n.name, n.parameters, LiveList(n.body, 1))
      [] OTHER -> n

\* The statement with every break taken out of its lists.
WithoutBreaksList(stmts, i) ==
    IF i > Len(stmts) THEN <<>>
    ELSE IF stmts[i].type = "Break" THEN WithoutBreaksList(stmts, i + 1)
    ELSE <<WithoutBreaks(stmts[i])>> \o WithoutBreaksList(stmts, i + 1)

WithoutBreaks(n) ==
    CASE n.type = "Loop" -> Loop(n.condition, WithoutBreaksList(n.body, 1))
      [] n.type = "Conditional" ->
           Conditional(n.condition, WithoutBreaksList(n.if_block, 1),
                       WithoutBreaksList(n.else_block, 1))
      [] n.type = "FunctionDef" -> FunctionDef(n.name, n.parameters, WithoutBreaksList(n.body, 1))
      [] OTHER -> n

ContainsBreak(n) ==
    CASE n.type = "Break" -> TRUE
      [] n.type \in {"Loop", "FunctionDef"} -> \E i \in 1..Len(n.body) : ContainsBreak(n.body[i])
      [] n.type = "Conditional" ->
           \/ \E i \in 1..Len(n.if_block) : ContainsBreak(n.if_block[i])
           \/ \E i \in 1..Len(n.else_block) : ContainsBreak(n.else_block[i])
      [] OTHER -> FALSE

\* compile() calls _generate on statement n in this step.
Attempts(n) == phase = "lowering" /\ lowered' = lowered + 1 /\ node' = n

Unimplemented == Exception("NotImplementedError", "Break")

\* Nothing but a break can fail in statement n: its function is new, or the
\* n of its condition is bound.
NothingElseFails(n) ==
    IF n.type = "FunctionDef" THEN n.name \notin ModuleNames(module) ELSE Has(local_vars, "n")

\* C24 as stated: lowering a statement with a break in it fails with the
\* unimplemented-construct error.
C24_AsStated ==
    [][\A n \in BreakStatements :
         Attempts(n) => phase' = "failed" /\ error' = Unimplemented]_vars

\* C24: a Break node that is lowered raises NotImplementedError and no jump
\* is emitted for it: a break at the top level fails with it and leaves the
\* module as it was; a statement with a break that no Return of its list
\* precedes fails, with that error or with the error that an earlier part
\* of the statement raises, and the block the builder stands in has no
\* terminator; a break that follows a Return in a loop body, a branch or a
\* function body is never lowered, and the statement lowers as it does
\* without the break.
C24_BreakUnimplemented ==
    [][\A n \in BreakStatements :
         Attempts(n) =>
            LET made == _generate(WithoutBreaks(n), Self)
            IN /\ n = Break => /\ phase' = "failed" /\ error' = Unimplemented
                               /\ module' = module
               /\ (n # Break /\ ContainsBreak(Live(n))) =>
                     /\ phase' = "failed"
                     /\ error' = Unimplemented \/ error' = made.err
                     /\ error' = Unimplemented =>
                          ~IsTerminated(module'[builder'.fn].blocks[builder'.block])
                     /\ NothingElseFails(n) => error' = Unimplemented
               /\ (n # Break /\ ~ContainsBreak(Live(n))) =>
                     /\ module' = made.module
                     /\ error' = made.err
                     /\ NothingElseFails(n) => phase' = "lowering"]_vars

\* n is 1, then a loop whose body is a Return and a break has been lowered
\* without an error.
C24_Witness ==
    /\ phase = "lowering" /\ lowered = 2
    /\ node = Loop(LoopCondition, <<Return(NoNode), Break>>)
    /\ error = NoError
    /\ Len(module[1].blocks) = 4

(***************************************************************************)
(* C25  Termination of the parser.                                         *)
(***************************************************************************)
\* C25: every iteration of parse()'s loop over the statements, with the
\* loops of parse_block inside it, ends: it returns the Program, raises
\* SyntaxError, or leaves the parser further on in the tokens.
C25_ParserProgress ==
    [][parsed.status = "parsing" =>
          \/ parsed'.status = "ok" /\ position' = position
          \/ parsed'.status = "SyntaxError"
          \/ parsed'.status = "parsing" /\ position' > position]_vars

(***************************************************************************)
(* C26  One terminator for every block.                                    *)
(***************************************************************************)
\* Every block of every function of the module ends with its only
\* terminator.
AllBlocksTerminated ==
    \A f \in 1..Len(module) : \A b \in 1..Len(module[f].blocks) :
        EndsWithOneTerminator(module[f].blocks[b])

\* The builder refused a terminator for a block that has one.
TerminatorRefused == phase = "failed" /\ error = Exception("AssertionError", "block is terminated")

\* C26: compile() is never stopped by a second terminator for a block, and
\* when it completes every block of main and of the user functions ends
\* with exactly one terminator and has nothing after it, also with a Return
\* at the top level and with statements after a conditional whose branches
\* both return.
C26_BlocksTerminated ==
    /\ phase = "done" => AllBlocksTerminated
    /\ ~TerminatorRefused

\* Leaving aside the programs with a Return at the top level: when compile()
\* completes every block ends with exactly one terminator.
C26_CompletedBlocksTerminated == phase = "done" => AllBlocksTerminated

\* compile() has completed on n is 1, a conditional whose branches both
\* return and n is 2: the merge block holds the last assignment and main's
\* return.
C26_Completed ==
    /\ phase = "done" /\ lowered = 3 /\ node = UpdateN
    /\ Len(module[1].blocks) = 4
    /\ AllBlocksTerminated

(***************************************************************************)
(* C27  The argument of a call.                                            *)
(***************************************************************************)
\* The names the caller has bound, and those that hold v's reference.
Bound == {v \in {"x", "y"} : Has(local_vars, v)}

AliasesOf(v) == {w \in Bound : Aliased(Before, local_vars, v, w)}

\* The call passed v's own reference: no tracked value was created, and
\* after the call 2 is read through v and through every name that holds
\* v's reference, and every other name reads what it did.
PassedOwnReference(v) ==
    /\ CountCalls(module', "eigen_create") = CountCalls(module, "eigen_create")
    /\ DOMAIN After.heap = DOMAIN Before.heap
    /\ ReadThrough(After, local_vars', v) = 2
    /\ After.heap[ReferenceOf(Before, local_vars, v).v].iteration =
         Before.heap[ReferenceOf(Before, local_vars, v).v].iteration + 1
    /\ \A w \in Bound :
         /\ ReferenceOf(After, local_vars', w) = ReferenceOf(Before, local_vars, w)
         /\ w \notin AliasesOf(v) =>
              ReadThrough(After, local_vars', w) = ReadThrough(Before, local_vars, w)

\* The call passed a reference created for it: one eigen_create was
\* emitted, one tracked value more exists after the call, and every name
\* of the caller holds the reference and reads the number it did.
PassedFreshReference ==
    /\ CountCalls(module', "eigen_create") = CountCalls(module, "eigen_create") + 1
    /\ Cardinality(DOMAIN After.heap) = Cardinality(DOMAIN Before.heap) + 1
    /\ \A w \in Bound :
         /\ ReferenceOf(After, local_vars', w) = ReferenceOf(Before, local_vars, w)
         /\ ReadThrough(After, local_vars', w) = ReadThrough(Before, local_vars, w)

\* C27 as stated: every argument that is not a bare identifier is passed
\* in a fresh reference.
C27_AsStated ==
    [][\A arg \in SetterArguments :
         Lowers(Relation(Identifier("set"), arg)) =>
            /\ local_vars' = local_vars
            /\ IF arg.type = "Identifier" THEN PassedOwnReference(arg.name)
               ELSE PassedFreshReference]_vars

\* C27: a call of a user function whose argument is a bare identifier x, or
\* `what is x`, passes the reference x's slot holds and creates no tracked
\* value, so the callee's scalar assignment to n updates that reference in
\* place and the new value is read through x after the call; for every
\* other argument a fresh reference is created and no variable of the
\* caller changes.
C27_ArgumentPassing ==
    [][\A arg \in SetterArguments :
         Lowers(Relation(Identifier("set"), arg)) =>
            /\ local_vars' = local_vars
            /\ IF arg.type = "Identifier" THEN PassedOwnReference(arg.name)
               ELSE IF arg.type = "Interrogative" /\ arg.interrogative = "what"
               THEN PassedOwnReference(arg.expression.name)
               ELSE PassedFreshReference]_vars

\* x is 1, set defined, set of x lowered: x reads 2 when main has run.
C27_Witness ==
    /\ phase = "lowering" /\ lowered = 3
    /\ node = Relation(Identifier("set"), Identifier("x"))
    /\ Has(local_vars, "x")
    /\ ReadThrough(RunMain(module), local_vars, "x") = 2
    /\ Cardinality(DOMAIN RunMain(module).heap) = 1

(***************************************************************************)
(* C28  When a function name can be called.                                *)
(***************************************************************************)
RECURSIVE CalleesOf(_)
RECURSIVE CalleesIn(_, _)

\* The functions a statement or an expression calls.
CalleesIn(stmts, i) ==
    IF i > Len(stmts) THEN {} ELSE CalleesOf(stmts[i]) \cup CalleesIn(stmts, i + 1)

CalleesOf(n) ==
    CASE n.type = "Relation" -> {n.left.name} \cup CalleesOf(n.right)
      [] n.type = "Return" -> CalleesOf(n.expression)
      [] n.type = "Assignment" -> CalleesOf(n.expression)
      [] n.type = "Conditional" -> CalleesIn(n.if_block, 1) \cup CalleesIn(n.else_block, 1)
      [] n.type = "FunctionDef" -> CalleesIn(n.body, 1)
      [] OTHER -> {}

Unresolved == Exception("NotImplementedError", "Relation")

\* C28: a definition enters its name in the function table before its body
\* is lowered, and no entry ever leaves or changes: the definition of a new
\* name lowers exactly when every function its body calls is itself or is
\* in the table already, and fails on the call otherwise, the name being in
\* the table by then; a call `f of e` at the top level fails to resolve
\* exactly when f is not in the table, and with an argument that lowers it
\* lowers exactly when f is.
C28_FunctionTable ==
    [][/\ phase = "lowering" =>
            /\ DOMAIN functions \subseteq DOMAIN functions'
            /\ \A f \in DOMAIN functions : functions'[f] = functions[f]
       /\ \A d \in RecursiveDefs :
            (Attempts(d) /\ d.name \notin ModuleNames(module)) =>
               /\ d.name \in DOMAIN functions'
               /\ phase' = "lowering" <=> CalleesOf(d) \subseteq DOMAIN functions \cup {d.name}
               /\ phase' = "failed" => error' = Unresolved
       /\ \A c \in TopLevelCalls :
            Attempts(c) =>
               /\ error' = Unresolved <=> c.left.name \notin DOMAIN functions
               /\ c.right = Number(4) => (phase' = "lowering" <=> c.left.name \in DOMAIN functions)
               /\ phase' = "lowering" =>
                     Cardinality(NewCalls(c.left.name)) = 1]_vars

\* even has been defined with a body that calls even, and `even of 4` has
\* been lowered after it.
C28_Witness ==
    /\ phase = "lowering" /\ lowered = 2
    /\ node = Call("even", Number(4))
    /\ DOMAIN functions = {"even"}
    /\ CountCalls(module, "even") = 2

(***************************************************************************)
(* C29  Left associativity.                                                *)
(***************************************************************************)
RECURSIVE LeftNested(_, _, _)

\* ((o1 op1 o2) op2 o3) ... : the tree of the first k operators of a chain
\* in which every operator takes all that precedes it as its left operand.
LeftNested(kind, operators, k) ==
    IF k = 0 THEN Atom(OperandToken(kind, 1))
    ELSE BinaryOp(LeftNested(kind, operators, k - 1), op_map[operators[k]],
                  Atom(OperandToken(kind, k + 1)))

PrecedenceLevels == {ComparisonTokens, AdditiveTokens, MultiplicativeTokens}

\* The operators of a token list that is operand, operator, operand, ...
ChainOperators == [i \in 1..((Len(tokens) - 2) \div 2) |-> tokens[2 * i].type]

\* The tokens are a chain of operators of one level between operands.
SameLevelChain ==
    /\ Len(tokens) >= 4 /\ Len(tokens) % 2 = 0
    /\ tokens[1].type \in OperandKinds
    /\ \E level \in PrecedenceLevels : \A i \in 1..Len(ChainOperators) : ChainOperators[i] \in level
    /\ tokens = ExpressionTokens(tokens[1].type, ChainOperators)

\* C29: an expression whose operators are all of one precedence level (+
\* and -, * and /, or the comparisons =, < and >) is parsed without error
\* into the left-nested tree: `a - b - c` gives
\* BinaryOp(BinaryOp(a, "-", b), "-", c).
C29_LeftAssociative ==
    SameLevelChain =>
        /\ parsed.status \in {"parsing", "ok"}
        /\ position > 0 =>
              parsed.statements =
                 <<LeftNested(tokens[1].type, ChainOperators, Len(ChainOperators))>>

\* a - b + c has been parsed into (a - b) + c.
C29_Witness ==
    /\ Parsed
    /\ tokens = ExpressionTokens("IDENTIFIER", <<"MINUS", "PLUS">>)
    /\ parsed.statements =
         <<BinaryOp(BinaryOp(Identifier("a"), "-", Identifier("b")), "+", Identifier("c"))>>

\* The calls of a trace from its i-th event on end where they began: stack
\* holds recursion_depth and environment as they were at the begin of each
\* call that has not ended.
RECURSIVE Unwinds(_, _, _)
Unwinds(trace, i, stack) ==
    IF i > Len(trace) THEN stack = <<>>
    ELSE CASE trace[i].event = "call" -> Unwinds(trace, i + 1, Append(stack, trace[i].value))
           [] trace[i].event = "exit" ->
                /\ stack # <<>>
                /\ trace[i].value = stack[Len(stack)]
                /\ Unwinds(trace, i + 1, SubSeq(stack, 1, Len(stack) - 1))
           [] OTHER -> Unwinds(trace, i + 1, stack)

CallEvents == {i \in 1..Len(interpreter.trace) : interpreter.trace[i].event = "call"}

\* The greatest recursion depth a call of the last statement began at.
Deepest ==
    IF CallEvents = {} THEN 0
    ELSE CHOOSE d \in 1..(MaxRecursion + 1) :
            /\ \E i \in CallEvents : interpreter.trace[i].value.recursion_depth + 1 = d
            /\ \A i \in CallEvents : interpreter.trace[i].value.recursion_depth + 1 <= d

C30_BodyCompleted ==
    /\ interpreter.program = Completing
    /\ interpreter.at = "done"

C30_Returned ==
    /\ interpreter.program = CountingDown(MaxRecursion - 1)
    /\ interpreter.pc = 2
    /\ ~interpreter.enable_convergence_detection
    /\ Deepest = MaxRecursion

C30_Converged ==
    /\ interpreter.program = CountingDown(MaxRecursion - 1)
    /\ interpreter.pc = 2
    /\ interpreter.fs_tracker = {3}
    /\ Deepest = 3

C30_LimitReached ==
    /\ interpreter.program = Endless
    /\ interpreter.at = "raised"
    /\ evaluated.error.type = "RuntimeError"
    /\ Deepest = MaxRecursion + 1

====
